---- MODULE Spec2Model ----
(***************************************************************************)
(* Risk-managed signal / backtesting subsystem of buffett_screener.        *)
(*                                                                         *)
(* Numbers.  The Python code computes in floats.  The model computes the   *)
(* same expressions exactly, over integers:                                *)
(*   - prices, ATR values, stops and dollar amounts are whole dollars;     *)
(*   - a percentage p (0.01, 0.05, ...) is the integer p * PctScale, so    *)
(*     0.01 is 1 and 1.0 is 100;                                           *)
(*   - risk_pct = risk_amount / account_size is kept as the fraction       *)
(*     [num, den];                                                         *)
(*   - int(x) of a quotient truncates toward zero (IntQuot).               *)
(***************************************************************************)
EXTENDS Integers, Sequences, FiniteSets, TLC

VARIABLES
    account_size,       \* RiskManager.account_size
    max_risk_pct,       \* RiskManager.max_risk_pct      (times PctScale)
    max_position_pct,   \* RiskManager.max_position_pct  (times PctScale)
    positions,          \* RiskManager.positions: ticker -> position dict
    sized_with,         \* history: ticker -> the atr, risk_multiple and stop_loss its position was sized with
    args,               \* arguments of the last calculate_position_size call
    ret,                \* value the last call returned (calculate_position_size, calculate_trailing_stop)
    trail_calls,        \* number of calculate_trailing_stop calls made
    adjust_calls        \* number of adjust_position_sizes calls made

riskVars == <<account_size, max_risk_pct, max_position_pct, positions, sized_with,
              args, ret, trail_calls, adjust_calls>>

VARIABLES
    credentials,        \* APCA_API_KEY_ID and APCA_API_SECRET_KEY are set in the environment
    bracket,            \* the last submit_bracket call: arguments, exception raised, broker calls made
    orders,             \* every submit_order call made on the Alpaca client, in order
    bracket_calls       \* number of submit_bracket calls made

brokerVars == <<credentials, bracket, orders, bracket_calls>>

VARIABLES
    df                  \* the frame handed to build_factor_df: bars [high, low, close, score] in date order

factorVars == <<df>>

VARIABLES
    now,                \* the clock, in seconds
    cache_files,        \* universe -> its score_cache_<universe>.sqlite file: exists, mtime, content
    fscore,             \* the last get_f_score call: universe, table returned, provider calls made
    fscore_calls,       \* number of get_f_score calls made
    ticks,              \* number of clock advances made
    score_cache,        \* the scores table of score_cache.sqlite: <<ticker, date>> -> score
    score_result,       \* the last get_score call: ticker, value returned, exception raised
    score_calls,        \* number of get_score calls made
    recompute,          \* the last _calculate_f_scores call: its inputs, the tickers tried, the table returned
    recompute_calls     \* number of _calculate_f_scores calls made on their own

cacheVars == <<now, cache_files, fscore, fscore_calls, ticks,
               score_cache, score_result, score_calls, recompute, recompute_calls>>

VARIABLES
    retry,              \* the retried network call in progress: function, position, attempts made, sleeps taken, result
    retry_calls         \* number of retried calls started

retryVars == <<retry, retry_calls>>

VARIABLES
    job,                \* the last run of the nightly job: its flags, the step that raised, what it did
    memo_file,          \* reports/buffett_memo.txt: the symbols of the memo written last
    slack_posts,        \* the summaries posted to the Slack webhook, in order
    job_calls           \* number of nightly job runs made

jobVars == <<job, memo_file, slack_posts, job_calls>>

VARIABLES
    book_log            \* history: the add_position and remove_position calls made on the book, in order

bookVars == <<book_log>>

vars == <<riskVars, brokerVars, factorVars, cacheVars, retryVars, jobVars, bookVars>>

----------------------------------------------------------------------------
(* Bounds of the model *)

MaxAtr == 2
MaxRiskMultiple == 2
MaxTrailCalls == 2
MaxAdjustCalls == 2

(* Program constants *)

DefaultMaxRiskPct == 1          \* max_risk_pct = 0.01
DefaultMaxPositionPct == 5      \* max_position_pct = 0.05
DefaultMaxPortfolioRiskPct == 5 \* max_portfolio_risk_pct = 0.05
DefaultAtrMultiple == 2         \* atr_multiple = 2.0
DefaultRiskMultiple == 2        \* risk_multiple = 2.0
DefaultRiskPct == 1             \* risk_pct = 0.01
LegacyAtrMultiple == 2          \* risk_per_share = 2 * atr
DefaultRiskRewardRatio == 2     \* risk_reward_ratio = 2.0
JobAccountSize == 100000        \* account_size=100000
TopN == 10                      \* head(10)
ConfigFScore == 7               \* filters: f_score: 7
JobStopAtrs == 2                \* stop_loss = price - (2 * atr)
JobTakeProfitAtrs == 4          \* take_profit = price + (4 * atr)
Thr == 7                        \* thr = 7
AtrStopMultiple == 2            \* entry_price - 2 * atr
cache_freshness == 86400        \* 24 hours in seconds
max_retries == 3                \* attempts of a retried network call

PctScale == 10 * 10

MaxSizerAtr == 5
MaxQty == 1
MaxBracketPrice == 3
MaxBracketCalls == 2
MaxBars == 4
MaxTicks == 2
MaxFScoreCalls == 3
MaxScoreCalls == 2
MaxRecomputeCalls == 1
MaxJobCalls == 1
MaxBookCalls == 3
MaxStoreCalls == 2
MaxRetryCalls == 2
\* the scorer's batch; the code runs it at 50 symbols
BatchSize == 2
MaxClose == 3
MaxSpread == 1
\* the windows of the moving averages; the code runs them at 200 and 14 bars
SmaWindow == 2
AtrWindow == 2

Tickers == {"AAPL", "MSFT"}
SizerAccountSizes == {0, 1000, 10000, 100000}
SizerPrices == {50, 100, 150}
SizerAtrs == 0..MaxSizerAtr
AccountSizes == {1000}
\* accounts of the logged book: one overdrawn, one empty, one funded
BookAccountSizes == {-1000, 0, 1000}
MaxRiskPcts == {DefaultMaxRiskPct, PctScale}
MaxPositionPcts == {PctScale}
SizerMaxPositionPcts == {DefaultMaxPositionPct, PctScale}
Prices == {50, 100}
Atrs == 0..MaxAtr
RiskMultiples == DefaultRiskMultiple..MaxRiskMultiple
SizerRiskMultiples == 1..MaxRiskMultiple
CurrentPrices == {51, 110}
AtrMultiples == {DefaultAtrMultiple, 2 * DefaultAtrMultiple}
PortfolioRiskCaps == {1, 3, DefaultMaxPortfolioRiskPct}
\* the arguments of the module-level position_size
DollarPrices == {50, 100, 300}
\* stop_loss arguments of calculate_take_profit, as distances below the entry
\* price: a stop above the entry, at the entry, and two below it
StopDistances == {-5, 0, 5, 10}
\* risk_reward_ratio arguments of calculate_take_profit
RiskRewardRatios == {0, 1, DefaultRiskRewardRatio, 3}
DollarAtrs == -1..MaxSizerAtr
DollarAccountSizes == {1000, 10000}
RiskPcts == {DefaultRiskPct, 2 * DefaultRiskPct, PctScale}

Qtys == -1..MaxQty
BracketPrices == -1..MaxBracketPrice

Closes == 1..MaxClose
Spreads == 0..MaxSpread
Scores == {Thr - 1, Thr}

Universes == {"SP500", "NASDAQ"}
\* get_universe_tickers: the list the universe provider gives when it answers
get_universe_tickers(universe) ==
    IF universe = "SP500" THEN <<"AAPL", "MSFT">> ELSE <<"MSFT">>

Range(seq) == {seq[i] : i \in DOMAIN seq}

\* what the universe provider lists for a universe when it answers
UniverseTickers(universe) == Range(get_universe_tickers(universe))
ClockSteps == {1, cache_freshness - 1}
\* the ticker lists of the scoring runs: up to two batches, no symbol twice
ScoringSymbols == {"AAPL", "MSFT", "GM"}
ScoringLists ==
    {l \in UNION {[1..n -> ScoringSymbols] : n \in 0..(BatchSize + 1)} :
        \A i, j \in DOMAIN l : i # j => l[i] # l[j]}

None == [none |-> TRUE]

----------------------------------------------------------------------------
(* Arithmetic helpers *)

\* int(n / d) for d > 0: Python's int() truncates toward zero
IntQuot(n, d) == IF n >= 0 THEN n \div d ELSE -((-n) \div d)

Max(a, b) == IF a >= b THEN a ELSE b

RECURSIVE SumOver(_, _)
\* sum(f[k] for k in S)
SumOver(f, S) ==
    IF S = {} THEN 0
    ELSE LET k == CHOOSE x \in S : TRUE
         IN f[k] + SumOver(f, S \ {k})

Abs(x) == IF x >= 0 THEN x ELSE -x

(* Exact fractions num / den, den > 0, in lowest terms *)

RECURSIVE Gcd(_, _)
Gcd(a, b) == IF b = 0 THEN a ELSE Gcd(b, a % b)

Frac(n, d) == LET g == Gcd(Abs(n), d) IN [num |-> n \div g, den |-> d \div g]

\* x * y, the common factors taken out before the products
FracMul(x, y) ==
    LET g1 == Gcd(Abs(x.num), y.den)
        g2 == Gcd(Abs(y.num), x.den)
    IN IF x.num = 0 \/ y.num = 0 THEN [num |-> 0, den |-> 1]
       ELSE [num |-> (x.num \div g1) * (y.num \div g2),
             den |-> (x.den \div g2) * (y.den \div g1)]

\* x / y for y > 0
FracDiv(x, y) == FracMul(x, [num |-> y.den, den |-> y.num])

\* x + y and x - y over the least common denominator
FracAdd(x, y) ==
    LET g == Gcd(x.den, y.den)
    IN Frac(x.num * (y.den \div g) + y.num * (x.den \div g), (x.den \div g) * y.den)

FracSub(x, y) == FracAdd(x, [num |-> -y.num, den |-> y.den])

RECURSIVE QuotLess(_, _, _, _)
\* a / b < c / d for a, c >= 0 and b, d > 0, by integer parts and remainders
QuotLess(a, b, c, d) ==
    IF a \div b # c \div d THEN a \div b < c \div d
    ELSE IF c % d = 0 THEN FALSE
    ELSE IF a % b = 0 THEN TRUE
    ELSE QuotLess(d, c % d, b, a % b)

FracLess(x, y) == QuotLess(x.num, x.den, y.num, y.den)

One == [num |-> 1, den |-> 1]

----------------------------------------------------------------------------
(* RiskManager *)

\* calculate_position_size with the ATR distance added to the price
calculate_position_size_stop_above(ticker, price, atr, risk_multiple) ==
    LET stop_loss == price + (atr * risk_multiple)
        risk_per_share == price - stop_loss
    IN [ticker        |-> ticker,
        shares        |-> 0,
        entry_price   |-> price,
        dollar_amount |-> 0,
        stop_loss     |-> stop_loss,
        risk_amount   |-> 0,
        risk_pct      |-> [num |-> 0, den |-> account_size]]

\* calculate_position_size without the max_position_pct cap
calculate_position_size_uncapped(ticker, price, atr, risk_multiple) ==
    LET stop_loss == price - (atr * risk_multiple)
        risk_per_share == price - stop_loss
        shares == IF risk_per_share > 0
                  THEN IntQuot(account_size * max_risk_pct, PctScale * risk_per_share)
                  ELSE 0
        risk_amount == shares * risk_per_share
    IN [ticker        |-> ticker,
        shares        |-> shares,
        entry_price   |-> price,
        dollar_amount |-> shares * price,
        stop_loss     |-> stop_loss,
        risk_amount   |-> risk_amount,
        risk_pct      |-> [num |-> risk_amount, den |-> account_size]]

\* calculate_position_size dividing the risk budget by the price instead of the risk per share
calculate_position_size_by_price(ticker, price, atr, risk_multiple) ==
    LET stop_loss == price - (atr * risk_multiple)
        risk_per_share == price - stop_loss
        shares0 == IF risk_per_share > 0
                   THEN IntQuot(account_size * max_risk_pct, PctScale)
                   ELSE 0
        position_value0 == shares0 * price
        capped == position_value0 * PctScale > account_size * max_position_pct
        shares == IF capped
                  THEN IntQuot(account_size * max_position_pct, PctScale * price)
                  ELSE shares0
        risk_amount == shares * risk_per_share
    IN [ticker        |-> ticker,
        shares        |-> shares,
        entry_price   |-> price,
        dollar_amount |-> shares * price,
        stop_loss     |-> stop_loss,
        risk_amount   |-> risk_amount,
        risk_pct      |-> [num |-> risk_amount, den |-> account_size]]

\* RiskManager.calculate_position_size
calculate_position_size(ticker, price, atr, risk_multiple) ==
    LET stop_loss == price - (atr * risk_multiple)
        risk_per_share == price - stop_loss
        \* max_dollar_risk = account_size * max_risk_pct / PctScale
        shares0 == IF risk_per_share > 0
                   THEN IntQuot(account_size * max_risk_pct, PctScale * risk_per_share)
                   ELSE 0
        position_value0 == shares0 * price
        \* position_value > max_position_value, max_position_value = account_size * max_position_pct / PctScale
        capped == position_value0 * PctScale > account_size * max_position_pct
        shares == IF capped
                  THEN IntQuot(account_size * max_position_pct, PctScale * price)
                  ELSE shares0
        position_value == IF capped THEN shares * price ELSE position_value0
        risk_amount == shares * risk_per_share
    IN [ticker        |-> ticker,
        shares        |-> shares,
        entry_price   |-> price,
        dollar_amount |-> position_value,
        stop_loss     |-> stop_loss,
        risk_amount   |-> risk_amount,
        risk_pct      |-> [num |-> risk_amount, den |-> account_size]]

\* calculate_position_size dividing by risk_per_share without testing it
calculate_position_size_error_unguarded(price, atr, risk_multiple) ==
    LET risk_per_share == atr * risk_multiple
    IN IF risk_per_share = 0 \/ account_size = 0 THEN "ZeroDivisionError" ELSE "none"

\* the exception calculate_position_size raises: its divisions are by
\* risk_per_share (line 76, only when risk_per_share > 0), by price (line 84,
\* only when the position value is above the cap) and by account_size (line 89)
calculate_position_size_error(price, atr, risk_multiple) ==
    LET risk_per_share == atr * risk_multiple
        shares0 == IF risk_per_share > 0
                   THEN IntQuot(account_size * max_risk_pct, PctScale * risk_per_share)
                   ELSE 0
        capped == shares0 * price * PctScale > account_size * max_position_pct
    IN IF capped /\ price = 0 THEN "ZeroDivisionError"
       ELSE IF account_size = 0 THEN "ZeroDivisionError"
       ELSE "none"

\* the exception position_size raises: none, it divides by risk_per_share
\* only after testing it against 0
position_size_error(price, atr, account, risk_pct) == "none"

\* get_portfolio_risk dividing by account_size whatever its sign
get_portfolio_risk_unguarded(book) ==
    LET total_value == SumOver([t \in DOMAIN book |-> book[t].dollar_amount], DOMAIN book)
        total_risk == SumOver([t \in DOMAIN book |-> book[t].risk_amount], DOMAIN book)
    IN [total_value       |-> total_value,
        total_risk_amount |-> total_risk,
        total_risk_pct    |-> [num |-> total_risk, den |-> account_size],
        position_count    |-> Cardinality(DOMAIN book)]

\* RiskManager.get_portfolio_risk on a book
get_portfolio_risk(book) ==
    LET total_value == SumOver([t \in DOMAIN book |-> book[t].dollar_amount], DOMAIN book)
        total_risk == SumOver([t \in DOMAIN book |-> book[t].risk_amount], DOMAIN book)
    IN [total_value       |-> total_value,
        total_risk_amount |-> total_risk,
        total_risk_pct    |-> IF account_size > 0
                              THEN [num |-> total_risk, den |-> account_size]
                              ELSE [num |-> 0, den |-> 1],
        position_count    |-> Cardinality(DOMAIN book)]

\* a <= cap, for a fraction a and a percentage cap (times PctScale)
PctLeq(a, cap) == a.num * PctScale <= cap * a.den

\* a <= b for fractions with positive denominators
FracLeq(a, b) == a.num * b.den <= b.num * a.den

\* calculate_trailing_stop without the "only move stop loss up" test
calculate_trailing_stop_unguarded(position, current_price, atr_multiple) ==
    LET original_stop_distance == position.entry_price - position.stop_loss
        new_stop == current_price - Max(original_stop_distance,
                                        (atr_multiple * original_stop_distance) \div 2)
    IN IF current_price > position.entry_price
       THEN [stop_loss |-> new_stop, ret |-> new_stop]
       ELSE [stop_loss |-> position.stop_loss, ret |-> position.stop_loss]

\* RiskManager.calculate_trailing_stop on a position of the book:
\* the stop it stores (stop_loss) and the value it returns (ret)
calculate_trailing_stop(position, current_price, atr_multiple) ==
    LET entry_price == position.entry_price
        current_stop == position.stop_loss
        original_stop_distance == entry_price - position.stop_loss
        \* atr_multiple is even, so atr_multiple * original_stop_distance / 2 is exact
        new_stop == current_price - Max(original_stop_distance,
                                        (atr_multiple * original_stop_distance) \div 2)
    IN IF current_price > entry_price /\ new_stop > current_stop
       THEN [stop_loss |-> new_stop, ret |-> new_stop]
       ELSE [stop_loss |-> current_stop, ret |-> current_stop]

\* adjust_position_sizes' loop changing the share count alone
adjusted_position_stale_amounts(position, cap, total_risk_pct) ==
    LET adjusted_shares == IntQuot(position.shares * cap * total_risk_pct.den,
                                   PctScale * total_risk_pct.num)
    IN [position EXCEPT !.shares = adjusted_shares]

\* one position of adjust_position_sizes' loop; shares 0 means dropped
adjusted_position(position, cap, total_risk_pct) ==
    LET \* scaling_factor = cap / total_risk_pct
        adjusted_shares == IntQuot(position.shares * cap * total_risk_pct.den,
                                   PctScale * total_risk_pct.num)
        risk_amount == adjusted_shares * (position.entry_price - position.stop_loss)
    IN [position EXCEPT !.shares = adjusted_shares,
                        !.dollar_amount = adjusted_shares * position.entry_price,
                        !.risk_amount = risk_amount,
                        !.risk_pct = [num |-> risk_amount, den |-> account_size]]

\* adjust_position_sizes scaling the book whenever it carries risk
adjusted_book_always_scaled(book, cap) ==
    LET portfolio_risk == get_portfolio_risk(book)
    IN IF portfolio_risk.total_risk_pct.num = 0
       THEN book
       ELSE LET adj == [t \in DOMAIN book |->
                           adjusted_position(book[t], cap, portfolio_risk.total_risk_pct)]
                kept == {t \in DOMAIN book : adj[t].shares > 0}
            IN [t \in kept |-> adj[t]]

\* the book adjust_position_sizes leaves
adjusted_book(book, cap) ==
    LET portfolio_risk == get_portfolio_risk(book)
    IN IF PctLeq(portfolio_risk.total_risk_pct, cap)
       THEN book
       ELSE LET adj == [t \in DOMAIN book |->
                           adjusted_position(book[t], cap, portfolio_risk.total_risk_pct)]
                kept == {t \in DOMAIN book : adj[t].shares > 0}
            IN [t \in kept |-> adj[t]]

\* position_size with the ATR itself as the stop distance
position_size_one_atr(price, atr, account, risk_pct) ==
    LET risk_amount == Frac(account * risk_pct, PctScale)
        risk_per_share == atr
    IN IF risk_per_share = 0 THEN [num |-> 0, den |-> 1]
       ELSE FracMul(FracMul(risk_amount, IF risk_per_share > 0
                                         THEN [num |-> 1, den |-> risk_per_share]
                                         ELSE [num |-> -1, den |-> -risk_per_share]),
                    [num |-> price, den |-> 1])

\* position_size(price, atr, account_size, risk_pct): the dollar size
\* (risk_amount / risk_per_share) * price, as an exact fraction
position_size(price, atr, account, risk_pct) ==
    LET risk_amount == Frac(account * risk_pct, PctScale)
        risk_per_share == LegacyAtrMultiple * atr
    IN IF risk_per_share = 0 THEN [num |-> 0, den |-> 1]
       ELSE FracMul(FracMul(risk_amount, IF risk_per_share > 0
                                         THEN [num |-> 1, den |-> risk_per_share]
                                         ELSE [num |-> -1, den |-> -risk_per_share]),
                    [num |-> price, den |-> 1])

----------------------------------------------------------------------------
(* Operations *)

\* calculate_take_profit measuring the reward from the stop
calculate_take_profit_from_stop(entry_price, stop_loss, risk_reward_ratio) ==
    LET risk == entry_price - stop_loss
    IN stop_loss + (risk * risk_reward_ratio)

\* RiskManager.calculate_take_profit
calculate_take_profit(entry_price, stop_loss, risk_reward_ratio) ==
    LET risk == entry_price - stop_loss
        take_profit == entry_price + (risk * risk_reward_ratio)
    IN take_profit

\* a call of calculate_take_profit; given = FALSE leaves risk_reward_ratio to
\* its default
CalculateTakeProfit(entry_price, stop_loss, given, ratio) ==
    LET risk_reward_ratio == IF given THEN ratio ELSE DefaultRiskRewardRatio
    IN /\ given \/ ratio = DefaultRiskRewardRatio
       /\ args' = [entry_price |-> entry_price, stop_loss |-> stop_loss,
                   given |-> given, risk_reward_ratio |-> ratio]
       /\ ret' = [take_profit |-> calculate_take_profit(entry_price, stop_loss,
                                                         risk_reward_ratio)]
       /\ UNCHANGED <<account_size, max_risk_pct, max_position_pct, positions,
                      sized_with, trail_calls, adjust_calls>>

\* a call of the module-level position_size
PositionSize(price, atr, account, risk_pct) ==
    /\ args' = [price |-> price, atr |-> atr, account_size |-> account,
                risk_pct |-> risk_pct]
    /\ ret' = IF position_size_error(price, atr, account, risk_pct) = "none"
              THEN [dollars |-> position_size(price, atr, account, risk_pct)]
              ELSE [raised |-> position_size_error(price, atr, account, risk_pct)]
    /\ UNCHANGED <<account_size, max_risk_pct, max_position_pct, positions, sized_with,
                   trail_calls, adjust_calls>>

\* a call of calculate_position_size; the book is not touched
CalculatePositionSize(t, price, atr, rm) ==
    /\ args' = [ticker |-> t, price |-> price, atr |-> atr, risk_multiple |-> rm]
    /\ ret' = IF calculate_position_size_error(price, atr, rm) = "none"
              THEN calculate_position_size(t, price, atr, rm)
              ELSE [raised |-> calculate_position_size_error(price, atr, rm)]
    /\ UNCHANGED <<account_size, max_risk_pct, max_position_pct, positions, sized_with,
                   trail_calls, adjust_calls>>

\* add_position(ticker, calculate_position_size(ticker, price, atr, risk_multiple))
AddPosition(t, price, atr, rm) ==
    LET p == calculate_position_size(t, price, atr, rm)
    IN /\ positions' = (t :> p) @@ positions
       /\ sized_with' = (t :> [atr |-> atr, risk_multiple |-> rm, stop_loss |-> p.stop_loss])
                        @@ sized_with
       /\ ret' = None
       /\ UNCHANGED <<account_size, max_risk_pct, max_position_pct, args,
                      trail_calls, adjust_calls>>

\* remove_position(ticker)
RemovePosition(t) ==
    /\ IF t \in DOMAIN positions
       THEN /\ positions' = [k \in DOMAIN positions \ {t} |-> positions[k]]
            /\ sized_with' = [k \in DOMAIN sized_with \ {t} |-> sized_with[k]]
       ELSE UNCHANGED <<positions, sized_with>>
    /\ ret' = None
    /\ UNCHANGED <<account_size, max_risk_pct, max_position_pct, args,
                   trail_calls, adjust_calls>>

\* a call of get_portfolio_risk; the book is not touched
GetPortfolioRisk ==
    /\ ret' = [portfolio_risk |-> get_portfolio_risk(positions)]
    /\ UNCHANGED <<account_size, max_risk_pct, max_position_pct, positions, sized_with,
                   args, trail_calls, adjust_calls>>

\* add_position with the position calculate_position_size returned, logged
LoggedAddPosition(t, price, atr, rm) ==
    /\ Len(book_log) < MaxBookCalls
    /\ calculate_position_size_error(price, atr, rm) = "none"
    /\ AddPosition(t, price, atr, rm)
    /\ book_log' = Append(book_log,
                          [op |-> "add", ticker |-> t,
                           position_data |-> calculate_position_size(t, price, atr, rm)])

\* remove_position, logged
LoggedRemovePosition(t) ==
    /\ Len(book_log) < MaxBookCalls
    /\ RemovePosition(t)
    /\ book_log' = Append(book_log, [op |-> "remove", ticker |-> t])

\* adjust_position_sizes(max_portfolio_risk_pct)
AdjustPositionSizes(cap) ==
    /\ adjust_calls < MaxAdjustCalls
    /\ adjust_calls' = adjust_calls + 1
    /\ positions' = adjusted_book(positions, cap)
    /\ sized_with' = [k \in DOMAIN positions' |-> sized_with[k]]
    \* the book it returns, with its argument and the portfolio_risk it computed
    /\ ret' = [adjusted |-> positions', max_portfolio_risk_pct |-> cap,
               portfolio_risk |-> get_portfolio_risk(positions)]
    /\ UNCHANGED <<account_size, max_risk_pct, max_position_pct, args, trail_calls>>

\* calculate_trailing_stop(ticker, current_price, atr_multiple)
CalculateTrailingStop(t, current_price, atr_multiple) ==
    /\ trail_calls < MaxTrailCalls
    /\ trail_calls' = trail_calls + 1
    /\ IF t \notin DOMAIN positions
       THEN /\ ret' = [stop |-> 0]
            /\ UNCHANGED positions
       ELSE LET r == calculate_trailing_stop(positions[t], current_price, atr_multiple)
            IN /\ positions' = [positions EXCEPT ![t].stop_loss = r.stop_loss]
               /\ ret' = [stop |-> r.ret]
    /\ UNCHANGED <<account_size, max_risk_pct, max_position_pct, sized_with, args,
                   adjust_calls>>

----------------------------------------------------------------------------
(* Broker: submit_bracket *)

\* submit_bracket with "stop_loss_price > entry_price" as its last test
bracket_validation_stop_at_entry(qty, entry_price, take_profit_price, stop_loss_price) ==
    IF qty <= 0 THEN "Quantity must be positive"
    ELSE IF entry_price <= 0 \/ take_profit_price <= 0 \/ stop_loss_price <= 0
         THEN "Prices must be positive"
    ELSE IF take_profit_price <= entry_price
         THEN "Take profit price must be greater than entry price"
    ELSE IF stop_loss_price > entry_price
         THEN "Stop loss price must be less than entry price"
    ELSE "ok"

\* the input validation of submit_bracket: the ValueError message, or "ok"
bracket_validation(qty, entry_price, take_profit_price, stop_loss_price) ==
    IF qty <= 0 THEN "Quantity must be positive"
    ELSE IF entry_price <= 0 \/ take_profit_price <= 0 \/ stop_loss_price <= 0
         THEN "Prices must be positive"
    ELSE IF take_profit_price <= entry_price
         THEN "Take profit price must be greater than entry price"
    ELSE IF stop_loss_price >= entry_price
         THEN "Stop loss price must be less than entry price"
    ELSE "ok"

\* submit_bracket(symbol, qty, entry_price, take_profit_price, stop_loss_price);
\* api_error: the Alpaca client's submit_order raises
SubmitBracket(symbol, qty, entry_price, take_profit_price, stop_loss_price, api_error) ==
    LET v == bracket_validation(qty, entry_price, take_profit_price, stop_loss_price)
        call == [symbol |-> symbol, qty |-> qty, entry_price |-> entry_price,
                 take_profit_price |-> take_profit_price,
                 stop_loss_price |-> stop_loss_price]
    IN /\ bracket_calls < MaxBracketCalls
       /\ bracket_calls' = bracket_calls + 1
       /\ IF v # "ok"
          THEN \* rejected before the try block
               /\ bracket' = [call |-> call, raised |-> "ValueError", message |-> v,
                              client_calls |-> 0, submit_order_calls |-> 0]
               /\ UNCHANGED orders
          ELSE IF ~credentials
          THEN \* _get_alpaca_client raises, no REST client is built
               /\ bracket' = [call |-> call, raised |-> "RuntimeError",
                              message |-> "Failed to submit bracket order",
                              client_calls |-> 1, submit_order_calls |-> 0]
               /\ UNCHANGED orders
          ELSE /\ orders' = Append(orders, call)
               /\ bracket' = [call |-> call,
                              raised |-> IF api_error THEN "RuntimeError" ELSE "none",
                              message |-> IF api_error THEN "Failed to submit bracket order"
                                          ELSE "",
                              client_calls |-> 1, submit_order_calls |-> 1]
       /\ UNCHANGED credentials

----------------------------------------------------------------------------
(* Signal generator: build_factor_df *)
(* A column is a function on 1..Len(df).  A float cell is NaN or the exact  *)
(* fraction num / den; comparisons with NaN are false, as in numpy.         *)

NaN == [nan |-> TRUE]

Val(n, d) == [nan |-> FALSE, num |-> n, den |-> d]

\* x > c, x < c for an integer x and a cell c
GtCell(x, c) == ~c.nan /\ x * c.den > c.num

LtCell(x, c) == ~c.nan /\ x * c.den < c.num

RECURSIVE Pow(_, _)
Pow(b, e) == IF e = 0 THEN 1 ELSE b * Pow(b, e - 1)

RECURSIVE SumRange(_, _, _)
\* a[lo] + ... + a[hi]
SumRange(a, lo, hi) == IF lo > hi THEN 0 ELSE a[hi] + SumRange(a, lo, hi - 1)

\* a rolling mean that counts the bars missing from the window as zero
rolling_mean_zero_padded(a, window) ==
    [t \in DOMAIN a |->
        IF t < window THEN Val(SumRange(a, 1, t), window)
        ELSE Val(SumRange(a, t - window + 1, t), window)]

\* vbt.MA.run(close, window).ma: the simple rolling mean, NaN until window bars exist
rolling_mean(a, window) ==
    [t \in DOMAIN a |->
        IF t < window THEN NaN
        ELSE Val(SumRange(a, t - window + 1, t), window)]

\* a true range with the bar's range taken as low - high
true_range_low_minus_high(f) ==
    [t \in DOMAIN f |-> f[t].low - f[t].high]

\* true range of vbt.ATR: max(high - low, |high - prev_close|, |low - prev_close|),
\* the terms with a missing previous close left out
true_range(f) ==
    [t \in DOMAIN f |->
        IF t = 1 THEN f[t].high - f[t].low
        ELSE Max(f[t].high - f[t].low,
                 Max(Abs(f[t].high - f[t - 1].close), Abs(f[t].low - f[t - 1].close)))]

RECURSIVE ewm_num(_, _, _)
\* numerator of the exponential mean at t, over the denominator (span + 1)^(t - 1):
\* y[1] = a[1], y[t] = ((span - 1) * y[t-1] + 2 * a[t]) / (span + 1)
ewm_num(a, span, t) ==
    IF t = 1 THEN a[1]
    ELSE (span - 1) * ewm_num(a, span, t - 1) + 2 * a[t] * Pow(span + 1, t - 2)

\* vbt.ATR.run(high, low, close, window).atr: the exponential mean (span = window,
\* adjust = False) of the true range, NaN until window bars exist
ewm_mean(a, span) ==
    [t \in DOMAIN a |->
        IF t < span THEN NaN
        ELSE Val(ewm_num(a, span, t), Pow(span + 1, t - 1))]

\* a fill that takes the next valid cell instead of the last one (bfill)
ffill_backward(a) ==
    [t \in DOMAIN a |->
        LET valid == {k \in DOMAIN a : k >= t /\ ~a[k].nan}
        IN IF valid = {} THEN NaN
           ELSE a[CHOOSE k \in valid : \A j \in valid : j >= k]]

\* pd.Series.ffill: each cell takes the last valid cell at or before it
ffill(a) ==
    [t \in DOMAIN a |->
        LET valid == {k \in DOMAIN a : k <= t /\ ~a[k].nan}
        IN IF valid = {} THEN NaN
           ELSE a[CHOOSE k \in valid : \A j \in valid : j <= k]]

\* build_factor_df(df, score_col, thr): the columns it adds, row by row
build_factor_df(f, thr) ==
    LET close == [t \in DOMAIN f |-> f[t].close]
        sma_200 == rolling_mean(close, SmaWindow)
        atr == ewm_mean(true_range(f), AtrWindow)
        entry == [t \in DOMAIN f |-> f[t].score >= thr /\ GtCell(close[t], sma_200[t])]
        exit_sma == [t \in DOMAIN f |-> LtCell(close[t], sma_200[t])]
        entry_price == ffill([t \in DOMAIN f |-> IF entry[t] THEN Val(close[t], 1) ELSE NaN])
        atr_stop == [t \in DOMAIN f |->
                        IF entry_price[t].nan \/ atr[t].nan THEN NaN
                        ELSE Val(entry_price[t].num * atr[t].den
                                     - AtrStopMultiple * atr[t].num * entry_price[t].den,
                                 entry_price[t].den * atr[t].den)]
        exit_atr == [t \in DOMAIN f |-> LtCell(close[t], atr_stop[t])]
    IN [t \in DOMAIN f |->
           [sma_200     |-> sma_200[t],
            atr         |-> atr[t],
            entry       |-> entry[t],
            exit_sma    |-> exit_sma[t],
            entry_price |-> entry_price[t],
            atr_stop    |-> atr_stop[t],
            exit_atr    |-> exit_atr[t],
            exit        |-> exit_sma[t] \/ exit_atr[t]]]

----------------------------------------------------------------------------
(* Portfolio simulator: backtest *)
(* Money is counted in units of init_cash, as exact fractions.               *)

\* fees = 0.001 and slippage = 0.001 of from_signals
fees == [num |-> 1, den |-> 1000]

slippage == [num |-> 1, den |-> 1000]

\* a buy order that pays the fees but fills at the close, without slippage
buy_without_slippage(pf, price) ==
    IF pf.cash.num = 0 THEN pf
    ELSE LET max_req_cash == FracDiv(pf.cash, FracAdd(One, fees))
         IN [cash |-> [num |-> 0, den |-> 1],
             shares |-> FracAdd(pf.shares, FracDiv(max_req_cash, [num |-> price, den |-> 1]))]

\* a long entry of from_signals with the default size: all the cash buys at
\* close * (1 + slippage), the fees taken out of the cash first
buy(pf, price) ==
    IF pf.cash.num = 0 THEN pf
    ELSE LET adj_price == FracMul([num |-> price, den |-> 1], FracAdd(One, slippage))
             max_req_cash == FracDiv(pf.cash, FracAdd(One, fees))
         IN [cash |-> [num |-> 0, den |-> 1],
             shares |-> FracAdd(pf.shares, FracDiv(max_req_cash, adj_price))]

\* an exit of from_signals: the whole position sells at close * (1 - slippage),
\* the fees taken out of the proceeds
sell(pf, price) ==
    IF pf.shares.num = 0 THEN pf
    ELSE LET adj_price == FracMul([num |-> price, den |-> 1], FracSub(One, slippage))
             proceeds == FracMul(pf.shares, adj_price)
         IN [cash |-> FracAdd(pf.cash, FracMul(proceeds, FracSub(One, fees))),
             shares |-> [num |-> 0, den |-> 1]]

RECURSIVE from_signals(_, _, _, _)
\* vbt.Portfolio.from_signals(price, entries, exits, direction='longonly'):
\* the cash and the shares held after bar t, the bars taken in date order
from_signals(price, entries, exits, t) ==
    IF t = 0 THEN [cash |-> One, shares |-> [num |-> 0, den |-> 1]]
    ELSE LET pf == from_signals(price, entries, exits, t - 1)
         IN IF entries[t] /\ ~exits[t] THEN buy(pf, price[t])
            ELSE IF exits[t] /\ ~entries[t] THEN sell(pf, price[t])
            ELSE pf

\* the portfolio value at bar t: cash + shares * close
value(price, entries, exits, t) ==
    LET pf == from_signals(price, entries, exits, t)
    IN FracAdd(pf.cash, FracMul(pf.shares, [num |-> price[t], den |-> 1]))

RECURSIVE running_max(_, _)
\* the highest of v[1..t]
running_max(v, t) ==
    IF t = 1 THEN v[1]
    ELSE LET m == running_max(v, t - 1) IN IF FracLess(m, v[t]) THEN v[t] ELSE m

\* pf.stats(): 'Total Return [%]' and 'Max Drawdown [%]', the latter the
\* deepest fall below the running peak as a positive percentage, NaN when the
\* value never falls below its peak
stats(price, entries, exits) ==
    LET n == Len(price)
        v == [t \in 1..n |-> value(price, entries, exits, t)]
        hundred == [num |-> 100, den |-> 1]
        \* 1 - v[t] / peak[t]
        drawdown == [t \in 1..n |-> FracSub(One, FracDiv(v[t], running_max(v, t)))]
        below == {t \in 1..n : drawdown[t].num > 0}
        deepest == CHOOSE t \in below : \A u \in below : ~FracLess(drawdown[t], drawdown[u])
    IN [total_return |-> FracMul(FracSub(v[n], One), hundred),
        max_dd |-> IF below = {} THEN NaN
                   ELSE Val(FracMul(drawdown[deepest], hundred).num,
                            FracMul(drawdown[deepest], hundred).den)]

\* backtest(df, start, end, cash, score_col, thr) on the frame f
backtest(f, thr) ==
    LET factor_df == build_factor_df(f, thr)
    IN stats([t \in DOMAIN f |-> f[t].close],
             [t \in DOMAIN f |-> factor_df[t].entry],
             [t \in DOMAIN f |-> factor_df[t].exit])

\* one more bar of price history and score arrives
AppendBar(close, spread, score) ==
    /\ Len(df) < MaxBars
    /\ df' = Append(df, [high |-> close + spread, low |-> close - spread,
                         close |-> close, score |-> score])

----------------------------------------------------------------------------
(* Score cache: get_f_score *)
(* A table is a function symbol -> [score, close, atr].  A cache file is    *)
(* [exists |-> FALSE] or [exists, mtime, content], content being the table  *)
(* f_scores or Unreadable (no such table, or not a database).               *)

EmptyTable == << >>

Unreadable == [unreadable |-> TRUE]

NoFile == [exists |-> FALSE]

\* the rows of the price provider: close and ATR of a symbol
PriceRow(symbol) == IF symbol = "AAPL" THEN [close |-> 100, atr |-> 2]
                    ELSE [close |-> 45, atr |-> 1]

\* the mock table _calculate_f_scores returns when the universe lists nothing
\* (its first rows)
MockTable ==
    [symbol \in {"AAPL", "F", "GM"} |->
        IF symbol = "AAPL" THEN [score |-> 8, close |-> 100, atr |-> 2]
        ELSE IF symbol = "F" THEN [score |-> 7, close |-> 45, atr |-> 1]
        ELSE [score |-> 6, close |-> 30, atr |-> 1]]

\* os.path.exists(cache_file) and cache_age < cache_freshness
cache_is_fresh(file, t) ==
    file.exists /\ t - file.mtime < cache_freshness

\* _load_from_cache: the stored table, or an empty frame when the read fails
load_from_cache(file, read_ok) ==
    IF read_ok /\ file.content # Unreadable THEN file.content ELSE EmptyTable

\* the exception _load_from_cache lets out when the read fails: none, its
\* except clause logs the error
load_from_cache_error(file, read_ok) == "none"

\* _save_to_cache that lets the error of a failed write out
save_to_cache_error_propagated(outcome) ==
    IF outcome = "ok" THEN "none" ELSE "OperationalError"

\* the exception _save_to_cache lets out when the write fails: none, its
\* except clause logs the error
save_to_cache_error(outcome) == "none"

\* _save_to_cache at time t; outcome "ok", "failed" (nothing written) or
\* "corrupt" (the file is created or touched but holds no readable table)
save_to_cache(file, scores, t, outcome) ==
    IF outcome = "ok" THEN [exists |-> TRUE, mtime |-> t, content |-> scores]
    ELSE IF outcome = "corrupt" THEN [exists |-> TRUE, mtime |-> t, content |-> Unreadable]
    ELSE file

Min(a, b) == IF a <= b THEN a ELSE b

\* get_batch_tickers(ticker_list, batch_size): consecutive slices of the list
get_batch_tickers(ticker_list, batch_size) ==
    [b \in 1..((Len(ticker_list) + batch_size - 1) \div batch_size) |->
        SubSeq(ticker_list, (b - 1) * batch_size + 1,
               Min(b * batch_size, Len(ticker_list)))]

\* the scorer call of a ticker raises: it is called (a price row and an API
\* key exist) and fails
scorer_raises(ticker, index, failed, api_key) ==
    ticker \in index /\ api_key /\ ticker \in failed

\* the inner loop with the try around the whole batch: the first scorer
\* failure ends the batch
score_batch_abort_on_failure(acc, batch, index, failed, api_key, score) ==
    LET raising == {i \in DOMAIN batch : scorer_raises(batch[i], index, failed, api_key)}
        last == IF raising = {} THEN Len(batch)
                ELSE CHOOSE i \in raising : \A j \in raising : i <= j
        processed == SubSeq(batch, 1, last)
        scored == {processed[i] : i \in {j \in DOMAIN processed :
                      /\ processed[j] \in index
                      /\ ~scorer_raises(processed[j], index, failed, api_key)}}
    IN [attempts     |-> acc.attempts \o processed,
        scorer_calls |-> acc.scorer_calls
                           \o SelectSeq(processed, LAMBDA t : t \in index /\ api_key),
        scores_data  |-> [t \in scored |-> score] @@ acc.scores_data]

\* the inner loop of _calculate_f_scores over one batch: every ticker of the
\* batch is tried; one with a price row gets the scorer's score (a random one
\* without an API key); a scorer failure is logged and leaves it without score
score_batch(acc, batch, index, failed, api_key, score) ==
    LET scored == {batch[i] : i \in {j \in DOMAIN batch :
                      /\ batch[j] \in index
                      /\ ~scorer_raises(batch[j], index, failed, api_key)}}
    IN [attempts     |-> acc.attempts \o batch,
        scorer_calls |-> acc.scorer_calls
                           \o SelectSeq(batch, LAMBDA t : t \in index /\ api_key),
        scores_data  |-> [t \in scored |-> score] @@ acc.scores_data]

RECURSIVE score_batches(_, _, _, _, _, _, _)
\* the outer loop over ticker_batches, from batch b on
score_batches(acc, ticker_batches, b, index, failed, api_key, score) ==
    IF b > Len(ticker_batches) THEN acc
    ELSE score_batches(score_batch(acc, ticker_batches[b], index, failed, api_key, score),
                       ticker_batches, b + 1, index, failed, api_key, score)

\* the scoring loops of _calculate_f_scores: the tickers tried in order
\* (attempts), the scorer calls made and scores_data
score_tickers(tickers, index, failed, api_key, score) ==
    score_batches([attempts |-> << >>, scorer_calls |-> << >>, scores_data |-> << >>],
                  get_batch_tickers(tickers, BatchSize), 1, index, failed, api_key, score)

\* _calculate_f_scores: tickers the universe lists, index the rows of the price
\* frame, complete the rows with close and ATR present, failed the symbols whose
\* scorer call raises, score the score the scorer (or the random fallback) gives
calculate_f_scores(tickers, index, complete, failed, api_key, score) ==
    IF tickers = << >> THEN MockTable
    ELSE LET scores_data == score_tickers(tickers, index, failed, api_key, score).scores_data
         IN \* price_data with the score column, after dropna
            [symbol \in (index \cap complete) \cap DOMAIN scores_data |->
                [score |-> scores_data[symbol], close |-> PriceRow(symbol).close,
                 atr |-> PriceRow(symbol).atr]]

\* a call of _calculate_f_scores on a universe that lists tickers
CalculateFScores(tickers, index, complete, failed, api_key, score) ==
    /\ recompute_calls < MaxRecomputeCalls
    /\ recompute_calls' = recompute_calls + 1
    /\ index \subseteq Range(tickers)
    /\ complete \subseteq index
    /\ failed \subseteq index
    /\ recompute' =
          [tickers |-> tickers, index |-> index, complete |-> complete,
           failed |-> failed, api_key |-> api_key,
           attempts |-> IF tickers = << >> THEN << >>
                        ELSE score_tickers(tickers, index, failed, api_key, score).attempts,
           scorer_calls |-> IF tickers = << >> THEN << >>
                            ELSE score_tickers(tickers, index, failed, api_key,
                                               score).scorer_calls,
           returned |-> calculate_f_scores(tickers, index, complete, failed, api_key, score)]
    /\ UNCHANGED <<now, cache_files, fscore, fscore_calls, ticks,
                   score_cache, score_result, score_calls>>

\* get_f_score(universe)
GetFScore(universe, read_ok, fetched, index, complete, failed, api_key, score, outcome) ==
    LET file == cache_files[universe]
        tickers == IF fetched THEN get_universe_tickers(universe) ELSE << >>
    IN /\ fscore_calls < MaxFScoreCalls
       /\ fscore_calls' = fscore_calls + 1
       /\ index \subseteq Range(tickers)
       /\ complete \subseteq index
       /\ failed \subseteq index
       /\ IF cache_is_fresh(file, now)
          THEN /\ fscore' = [universe |-> universe,
                             read |-> IF read_ok /\ file.content # Unreadable
                                      THEN "ok" ELSE "failed",
                             raised |-> load_from_cache_error(file, read_ok),
                             returned |-> IF load_from_cache_error(file, read_ok) = "none"
                                          THEN load_from_cache(file, read_ok)
                                          ELSE None,
                             recomputed |-> FALSE,
                             price_calls |-> 0, scorer_calls |-> 0, save |-> "none"]
               /\ UNCHANGED cache_files
          ELSE LET scores == calculate_f_scores(tickers, index, complete, failed, api_key,
                                                score)
               IN /\ fscore' = [universe |-> universe,
                                read |-> "none",
                                raised |-> save_to_cache_error(outcome),
                                returned |-> IF save_to_cache_error(outcome) = "none"
                                             THEN scores ELSE None,
                                recomputed |-> TRUE,
                                price_calls |-> IF tickers = << >> THEN 0 ELSE 1,
                                scorer_calls |-> IF tickers = << >> \/ ~api_key THEN 0
                                                 ELSE Cardinality(index),
                                save |-> outcome]
                  /\ cache_files' = [cache_files EXCEPT
                                        ![universe] = save_to_cache(file, scores, now, outcome)]
       /\ UNCHANGED <<now, ticks, score_cache, score_result, score_calls, recompute,
                    recompute_calls>>

\* time passes
Tick(dt) ==
    /\ ticks < MaxTicks
    /\ ticks' = ticks + 1
    /\ now' = now + dt
    /\ UNCHANGED <<cache_files, fscore, fscore_calls, score_cache, score_result, score_calls,
                   recompute, recompute_calls>>

----------------------------------------------------------------------------
(* Score cache: get_score *)
(* score_cache.sqlite holds one score per ticker and calendar day.          *)

\* datetime.date.today() at clock t: a calendar day is 24 hours
today(t) == t \div cache_freshness

\* _get_from_cache: today's row of the ticker, or None when there is none or
\* the read fails
get_from_cache(store, ticker, day, read_ok) ==
    IF read_ok /\ <<ticker, day>> \in DOMAIN store
    THEN [score |-> store[<<ticker, day>>]]
    ELSE None

\* _cache_result: INSERT OR REPLACE of today's row; a failed write is dropped
cache_result(store, ticker, day, score, write_ok) ==
    IF write_ok THEN (<<ticker, day>> :> score) @@ store ELSE store

\* the exception _cache_result lets out when the write fails: none
cache_result_error(write_ok) == "none"

\* get_score(ticker); read_ok, write_ok: the store answers; api_key: FMP_KEY is
\* set; scorer_ok: the scorer answers, with score
GetScore(ticker, read_ok, api_key, scorer_ok, score, write_ok) ==
    LET day == today(now)
        cached_result == get_from_cache(score_cache, ticker, day, read_ok)
        call == [ticker |-> ticker, day |-> day,
                 read |-> IF read_ok THEN "ok" ELSE "failed"]
    IN /\ score_calls < MaxScoreCalls
       /\ score_calls' = score_calls + 1
       /\ IF cached_result # None
          THEN /\ score_result' = [call |-> call, raised |-> "none", cause |-> "none",
                                   returned |-> cached_result, recomputed |-> FALSE,
                                   scorer_calls |-> 0, write |-> "none"]
               /\ UNCHANGED score_cache
          ELSE IF ~api_key
          THEN /\ score_result' = [call |-> call, raised |-> "RuntimeError",
                                   cause |-> "FMP_KEY environment variable not set",
                                   returned |-> None, recomputed |-> TRUE,
                                   scorer_calls |-> 0, write |-> "none"]
               /\ UNCHANGED score_cache
          ELSE IF ~scorer_ok
          THEN /\ score_result' = [call |-> call, raised |-> "RuntimeError",
                                   cause |-> "scorer",
                                   returned |-> None, recomputed |-> TRUE,
                                   scorer_calls |-> 1, write |-> "none"]
               /\ UNCHANGED score_cache
          ELSE /\ score_result' =
                      [call |-> call,
                       raised |-> IF cache_result_error(write_ok) = "none" THEN "none"
                                  ELSE "RuntimeError",
                       cause |-> IF cache_result_error(write_ok) = "none" THEN "none"
                                 ELSE "write",
                       returned |-> IF cache_result_error(write_ok) = "none"
                                    THEN [score |-> score] ELSE None,
                       recomputed |-> TRUE,
                       scorer_calls |-> 1,
                       write |-> IF write_ok THEN "ok" ELSE "failed"]
               /\ score_cache' = cache_result(score_cache, ticker, day, score, write_ok)
       /\ UNCHANGED <<now, cache_files, fscore, fscore_calls, ticks, recompute,
                      recompute_calls>>

----------------------------------------------------------------------------
(* Retried network calls: fetch_fundamentals, download_with_retry *)
(* retry.pc is the position of the call: "attempt" before a network request, *)
(* "sleep" in time.sleep, "done" after the return or the raise.              *)

RetriedCalls == {"fetch_fundamentals", "download_with_retry"}

\* what one requests.get of fetch_fundamentals can give
FetchOutcomes == {"ok", "empty", "rate_limited", "http_error", "connection_error"}

\* what one ticker.history of download_with_retry can give
DownloadOutcomes == {"ok", "empty", "missing_columns", "error"}

\* the state of a call at its first attempt
start_call(fn) ==
    [fn |-> fn, pc |-> "attempt", retry_count |-> 0, attempts |-> << >>, sleeps |-> 0,
     result |-> "none", message |-> ""]

\* one pass of the while loop of fetch_fundamentals, up to its sleep
fetch_attempt(r, outcome) ==
    LET tried == [r EXCEPT !.attempts = Append(@, outcome)]
    IN IF outcome = "rate_limited"
       THEN IF r.retry_count + 1 < max_retries
            THEN [tried EXCEPT !.retry_count = @ + 1, !.pc = "sleep"]
            ELSE [tried EXCEPT !.retry_count = @ + 1, !.pc = "done",
                               !.result = "RuntimeError",
                               !.message = "Rate limit exceeded"]
       ELSE IF outcome \in {"http_error", "connection_error"}
       THEN IF r.retry_count + 1 < max_retries
            THEN [tried EXCEPT !.retry_count = @ + 1, !.pc = "sleep"]
            ELSE [tried EXCEPT !.retry_count = @ + 1, !.pc = "done",
                               !.result = "RuntimeError",
                               !.message = "Failed to fetch data"]
       ELSE IF outcome = "empty"
       THEN [tried EXCEPT !.pc = "done", !.result = "RuntimeError",
                          !.message = "No data found for ticker"]
       ELSE [tried EXCEPT !.pc = "done", !.result = "returned"]

\* download_with_retry that sleeps and tries again after every failure
download_attempt_unbounded(r, outcome) ==
    LET tried == [r EXCEPT !.attempts = Append(@, outcome)]
    IN IF outcome = "ok"
       THEN [tried EXCEPT !.pc = "done", !.result = "returned"]
       ELSE [tried EXCEPT !.retry_count = @ + 1, !.pc = "sleep"]

\* one pass of the for loop of download_with_retry, up to its sleep;
\* retry_count is the loop variable attempt
download_attempt(r, outcome) ==
    LET tried == [r EXCEPT !.attempts = Append(@, outcome)]
    IN IF outcome = "ok"
       THEN [tried EXCEPT !.pc = "done", !.result = "returned"]
       ELSE IF r.retry_count < max_retries - 1
            THEN [tried EXCEPT !.retry_count = @ + 1, !.pc = "sleep"]
            ELSE [tried EXCEPT !.pc = "done", !.result = "RuntimeError",
                               !.message = "Failed to download data"]

\* time.sleep returns and the loop tests its condition again
after_sleep(r) ==
    IF r.retry_count < max_retries
    THEN [r EXCEPT !.sleeps = @ + 1, !.pc = "attempt"]
    ELSE IF r.fn = "fetch_fundamentals"
    THEN [r EXCEPT !.sleeps = @ + 1, !.pc = "done", !.result = "RuntimeError",
                   !.message = "Unexpected error in fetch_fundamentals"]
    ELSE [r EXCEPT !.sleeps = @ + 1, !.pc = "done", !.result = "returned None"]

\* fetch_fundamentals or download_with_retry is called (with its API key set)
StartCall(fn) ==
    /\ IF retry = None THEN TRUE ELSE retry.pc = "done"
    /\ retry_calls < MaxRetryCalls
    /\ retry_calls' = retry_calls + 1
    /\ retry' = start_call(fn)

\* the call makes its next request, which ends in outcome
FetchAttempt(outcome) ==
    /\ retry # None
    /\ retry.fn = "fetch_fundamentals" /\ retry.pc = "attempt"
    /\ retry' = fetch_attempt(retry, outcome)
    /\ UNCHANGED retry_calls

DownloadAttempt(outcome) ==
    /\ retry # None
    /\ retry.fn = "download_with_retry" /\ retry.pc = "attempt"
    /\ retry' = download_attempt(retry, outcome)
    /\ UNCHANGED retry_calls

\* the delay between two attempts passes
Sleep ==
    /\ retry # None
    /\ retry.pc = "sleep"
    /\ retry' = after_sleep(retry)
    /\ UNCHANGED retry_calls

----------------------------------------------------------------------------
(* The nightly job: jobs/nightly_job.py *)

\* the steps of main that can raise before the orders: load_config and the
\* write of the memo file
JobFailures == {"none", "load_config", "write_memo"}

\* SLACK_URL is unset, or the webhook accepts or refuses the request
SlackOutcomes == {"unset", "ok", "failed"}

\* the symbols get_sma reports with close above the moving average
AboveSma == {"AAPL", "F", "GM"}

\* the rows of get_top_stocks after its F-score and SMA filters
filter_stocks(f_scores, f_score, sma_200) ==
    {symbol \in DOMAIN f_scores :
        /\ f_scores[symbol].score >= f_score
        /\ sma_200 => symbol \in AboveSma}

\* sort_values('score', ascending=False): the orders of the rows with the
\* scores not increasing, rows of equal score in any order
sort_values(f_scores, symbols) ==
    {seq \in [1..Cardinality(symbols) -> symbols] :
        /\ \A i, j \in DOMAIN seq : i # j => seq[i] # seq[j]
        /\ \A i, j \in DOMAIN seq :
              i < j => f_scores[seq[i]].score >= f_scores[seq[j]].score}

head(seq, n) == SubSeq(seq, 1, Min(n, Len(seq)))

\* main submitting whenever --live is set
should_submit_when_live(dry_run, live) == live

\* the test of step 6 of main
should_submit(dry_run, live) == ~dry_run /\ live

\* a submit_bracket call of step 6 whose exception is caught and dropped
submit_for_symbol_caught(f_scores, symbol, b, api_error_at) ==
    LET price == f_scores[symbol].close
        atr == f_scores[symbol].atr
        size == position_size(price, atr, JobAccountSize, DefaultRiskPct)
        stop_loss == price - (JobStopAtrs * atr)
        take_profit == price + (JobTakeProfitAtrs * atr)
        v == bracket_validation(size.num, price, take_profit, stop_loss)
        call == [symbol |-> symbol, qty |-> size, entry_price |-> price,
                 take_profit_price |-> take_profit, stop_loss_price |-> stop_loss]
    IN IF v # "ok" \/ ~credentials
       THEN [b EXCEPT !.calls = @ + 1]
       ELSE [b EXCEPT !.calls = @ + 1, !.orders = Append(@, call)]

\* one turn of the loop of step 6: the submit_bracket call for a symbol of
\* positions; b is the broker so far, api_error_at the call in which the
\* Alpaca client's submit_order raises (0: in none)
submit_for_symbol(f_scores, symbol, b, api_error_at) ==
    LET price == f_scores[symbol].close
        atr == f_scores[symbol].atr
        size == position_size(price, atr, JobAccountSize, DefaultRiskPct)
        stop_loss == price - (JobStopAtrs * atr)
        take_profit == price + (JobTakeProfitAtrs * atr)
        \* size is a fraction in lowest terms: it is positive when its
        \* numerator is
        v == bracket_validation(size.num, price, take_profit, stop_loss)
        call == [symbol |-> symbol, qty |-> size, entry_price |-> price,
                 take_profit_price |-> take_profit, stop_loss_price |-> stop_loss]
        failed == b.calls + 1 = api_error_at
    IN IF v # "ok"
       THEN [b EXCEPT !.calls = @ + 1, !.raised = "ValueError",
                      !.bracket = [call |-> call, raised |-> "ValueError",
                                   message |-> v, client_calls |-> 0,
                                   submit_order_calls |-> 0]]
       ELSE IF ~credentials
       THEN [b EXCEPT !.calls = @ + 1, !.raised = "RuntimeError",
                      !.bracket = [call |-> call, raised |-> "RuntimeError",
                                   message |-> "Failed to submit bracket order",
                                   client_calls |-> 1, submit_order_calls |-> 0]]
       ELSE [b EXCEPT !.calls = @ + 1,
                      !.raised = IF failed THEN "RuntimeError" ELSE "none",
                      !.orders = Append(@, call),
                      !.bracket = [call |-> call,
                                   raised |-> IF failed THEN "RuntimeError" ELSE "none",
                                   message |-> IF failed
                                               THEN "Failed to submit bracket order"
                                               ELSE "",
                                   client_calls |-> 1, submit_order_calls |-> 1]]

\* step 6 of main from row i on: one submit_bracket call per position until
\* one raises
RECURSIVE submit_orders(_, _, _, _, _)
submit_orders(f_scores, top_stocks, i, b, api_error_at) ==
    IF i > Len(top_stocks) \/ b.raised # "none" THEN b
    ELSE submit_orders(f_scores, top_stocks, i + 1,
                       submit_for_symbol(f_scores, top_stocks[i], b, api_error_at),
                       api_error_at)

\* steps 3 to 7 of main on the rows get_top_stocks returned
RunJob(flags, f_scores, top_stocks, fail, api_error_at, slack) ==
    LET done == [args |-> flags, top_stocks |-> top_stocks, raised |-> "none",
                 memo_written |-> TRUE, submit_bracket_calls |-> 0,
                 slack_called |-> TRUE]
        b == IF should_submit(flags.dry_run, flags.live)
             THEN submit_orders(f_scores, top_stocks, 1,
                                [orders |-> orders, calls |-> 0, raised |-> "none",
                                 bracket |-> bracket], api_error_at)
             ELSE [orders |-> orders, calls |-> 0, raised |-> "none", bracket |-> bracket]
        summary == [stocks |-> top_stocks, dry_run |-> flags.dry_run, live |-> flags.live]
    IN IF fail = "write_memo"
       THEN /\ job' = [done EXCEPT !.raised = "write_memo", !.memo_written = FALSE,
                                   !.slack_called = FALSE]
            /\ UNCHANGED <<memo_file, slack_posts, bracket, orders, bracket_calls>>
       ELSE /\ memo_file' = top_stocks
            /\ orders' = b.orders
            /\ bracket' = b.bracket
            /\ bracket_calls' = bracket_calls + b.calls
            /\ IF b.raised # "none"
               THEN /\ job' = [done EXCEPT !.raised = "submit_bracket",
                                           !.submit_bracket_calls = b.calls,
                                           !.slack_called = FALSE]
                    /\ UNCHANGED slack_posts
               ELSE /\ job' = [done EXCEPT !.submit_bracket_calls = b.calls]
                    /\ slack_posts' = IF slack = "ok" THEN Append(slack_posts, summary)
                                      ELSE slack_posts

\* one run of main: load_config, get_top_stocks with its get_f_score call,
\* the position sizes, the memo, the orders and the Slack summary; the config
\* asks for an F-score of ConfigFScore and may ask for the SMA filter, the
\* universe has prices and scores for all its symbols and its cache can be saved
Main(dry_run, live, fail, universe, read_ok, score, sma_200, api_error_at, slack) ==
    LET flags == [dry_run |-> dry_run, live |-> live]
        index == UniverseTickers(universe)
        stopped == [args |-> flags, top_stocks |-> << >>, raised |-> "none",
                    memo_written |-> FALSE, submit_bracket_calls |-> 0,
                    slack_called |-> FALSE]
    IN /\ job_calls < MaxJobCalls
       /\ job_calls' = job_calls + 1
       /\ IF fail = "load_config"
          THEN /\ job' = [stopped EXCEPT !.raised = "load_config"]
               /\ UNCHANGED <<memo_file, slack_posts, bracket, orders, bracket_calls,
                              cacheVars>>
          ELSE /\ GetFScore(universe, read_ok, TRUE, index, index, {}, TRUE, score, "ok")
               /\ IF fscore'.raised # "none" \/ fscore'.read = "failed"
                  THEN \* get_f_score raised, or its frame has no score column
                       /\ job' = [stopped EXCEPT !.raised = "get_top_stocks"]
                       /\ UNCHANGED <<memo_file, slack_posts, bracket, orders,
                                      bracket_calls>>
                  ELSE \E sorted \in sort_values(fscore'.returned,
                                      filter_stocks(fscore'.returned, ConfigFScore,
                                                    sma_200)) :
                          RunJob(flags, fscore'.returned, head(sorted, TopN), fail,
                                 api_error_at, slack)
       /\ UNCHANGED credentials

----------------------------------------------------------------------------
(* Specifications *)

InitRisk ==
    /\ max_risk_pct \in MaxRiskPcts
    /\ positions = << >>
    /\ sized_with = << >>
    /\ args = None
    /\ ret = None
    /\ trail_calls = 0
    /\ adjust_calls = 0

InitFactor == df = << >>

InitCache ==
    /\ now = 0
    /\ cache_files = [universe \in Universes |-> NoFile]
    /\ fscore = None
    /\ fscore_calls = 0
    /\ ticks = 0
    /\ score_cache = << >>
    /\ score_result = None
    /\ score_calls = 0
    /\ recompute = None
    /\ recompute_calls = 0

InitRetry ==
    /\ retry = None
    /\ retry_calls = 0

InitJob ==
    /\ job = None
    /\ memo_file = None
    /\ slack_posts = << >>
    /\ job_calls = 0

InitBookLog == book_log = << >>

InitBroker ==
    /\ bracket = None
    /\ orders = << >>
    /\ bracket_calls = 0

Init ==
    /\ account_size \in AccountSizes
    /\ max_position_pct \in MaxPositionPcts
    /\ InitRisk
    /\ credentials = TRUE
    /\ InitBroker
    /\ InitFactor
    /\ InitCache
    /\ InitRetry
    /\ InitJob
    /\ InitBookLog

\* the position book of one RiskManager
Next ==
    /\ \/ \E t \in Tickers, price \in Prices, atr \in Atrs, rm \in RiskMultiples :
             AddPosition(t, price, atr, rm)
       \/ \E t \in Tickers : RemovePosition(t)
       \/ \E cap \in PortfolioRiskCaps : AdjustPositionSizes(cap)
       \/ \E t \in Tickers, current_price \in CurrentPrices, atr_multiple \in AtrMultiples :
             CalculateTrailingStop(t, current_price, atr_multiple)
    /\ UNCHANGED <<brokerVars, factorVars, cacheVars, retryVars, jobVars, bookVars>>

Spec == Init /\ [][Next]_vars

\* the sizing function alone, on a wider range of accounts and inputs
InitSizer ==
    /\ account_size \in SizerAccountSizes
    /\ max_position_pct \in SizerMaxPositionPcts
    /\ InitRisk
    /\ credentials = TRUE
    /\ InitBroker
    /\ InitFactor
    /\ InitCache
    /\ InitRetry
    /\ InitJob
    /\ InitBookLog

NextSizer ==
    /\ \/ \E t \in Tickers, price \in SizerPrices, atr \in SizerAtrs,
             rm \in SizerRiskMultiples :
             CalculatePositionSize(t, price, atr, rm)
       \/ \E price \in DollarPrices, atr \in DollarAtrs, account \in DollarAccountSizes,
             risk_pct \in RiskPcts :
             PositionSize(price, atr, account, risk_pct)
       \/ \E entry_price \in SizerPrices, d \in StopDistances, given \in BOOLEAN,
             ratio \in RiskRewardRatios :
             CalculateTakeProfit(entry_price, entry_price - d, given, ratio)
    /\ UNCHANGED <<brokerVars, factorVars, cacheVars, retryVars, jobVars, bookVars>>

SpecSizer == InitSizer /\ [][NextSizer]_vars

\* bracket orders sent to the broker, with and without credentials in the environment
\* a RiskManager with the default percentages and an empty book
InitDefaultRisk ==
    /\ account_size \in AccountSizes
    /\ max_position_pct = DefaultMaxPositionPct
    /\ max_risk_pct = DefaultMaxRiskPct
    /\ positions = << >>
    /\ sized_with = << >>
    /\ args = None
    /\ ret = None
    /\ trail_calls = 0
    /\ adjust_calls = 0

InitBracket ==
    /\ InitDefaultRisk
    /\ credentials \in BOOLEAN
    /\ InitBroker
    /\ InitFactor
    /\ InitCache
    /\ InitRetry
    /\ InitJob
    /\ InitBookLog

NextBracket ==
    /\ \E symbol \in Tickers, qty \in Qtys, entry_price \in BracketPrices,
          take_profit_price \in BracketPrices, stop_loss_price \in BracketPrices,
          api_error \in BOOLEAN :
          SubmitBracket(symbol, qty, entry_price, take_profit_price, stop_loss_price, api_error)
    /\ UNCHANGED <<riskVars, factorVars, cacheVars, retryVars, jobVars, bookVars>>

SpecBracket == InitBracket /\ [][NextBracket]_vars

\* the factor frame of a price history that grows bar by bar
NextFactor ==
    /\ \E close \in Closes, spread \in Spreads, score \in Scores :
          AppendBar(close, spread, score)
    /\ UNCHANGED <<riskVars, brokerVars, cacheVars, retryVars, jobVars, bookVars>>

InitFrame ==
    /\ InitDefaultRisk
    /\ credentials = TRUE
    /\ InitBroker
    /\ InitFactor
    /\ InitCache
    /\ InitRetry
    /\ InitJob
    /\ InitBookLog

SpecFactor == InitFrame /\ [][NextFactor]_vars

\* the score cache over time
NextCache ==
    /\ \/ \E universe \in Universes, read_ok \in BOOLEAN, fetched \in BOOLEAN,
             api_key \in BOOLEAN, score \in Scores, outcome \in {"ok", "failed", "corrupt"} :
             \E index \in SUBSET (IF fetched THEN UniverseTickers(universe) ELSE {}) :
                \E complete \in SUBSET index, failed \in SUBSET index :
                   GetFScore(universe, read_ok, fetched, index, complete, failed, api_key,
                             score, outcome)
       \/ \E dt \in ClockSteps : Tick(dt)
    /\ UNCHANGED <<riskVars, brokerVars, factorVars, retryVars, jobVars, bookVars>>

SpecCache == InitFrame /\ [][NextCache]_vars

\* both score stores with their reads and writes failing: get_f_score on
\* universes whose symbols all have prices and scores, and get_score
NextStore ==
    /\ \/ \E universe \in Universes, read_ok \in BOOLEAN, score \in Scores,
             outcome \in {"ok", "failed"} :
             /\ fscore_calls + score_calls < MaxStoreCalls
             /\ GetFScore(universe, read_ok, TRUE, UniverseTickers(universe),
                          UniverseTickers(universe), {}, TRUE, score, outcome)
       \/ \E ticker \in Tickers, read_ok \in BOOLEAN, api_key \in BOOLEAN,
             scorer_ok \in BOOLEAN, score \in Scores, write_ok \in BOOLEAN :
             /\ fscore_calls + score_calls < MaxStoreCalls
             /\ GetScore(ticker, read_ok, api_key, scorer_ok, score, write_ok)
       \/ \E dt \in ClockSteps : Tick(dt)
    /\ UNCHANGED <<riskVars, brokerVars, factorVars, retryVars, jobVars, bookVars>>

SpecStore == InitFrame /\ [][NextStore]_vars

\* score recomputation over ticker lists of one and two batches
NextScoring ==
    /\ \E tickers \in ScoringLists, api_key \in BOOLEAN, score \in Scores :
          \E index \in SUBSET Range(tickers) :
             \E complete \in SUBSET index, failed \in SUBSET index :
                CalculateFScores(tickers, index, complete, failed, api_key, score)
    /\ UNCHANGED <<riskVars, brokerVars, factorVars, retryVars, jobVars, bookVars>>

SpecScoring == InitFrame /\ [][NextScoring]_vars

\* retried network calls, one after the other
NextRetry ==
    /\ \/ \E fn \in RetriedCalls : StartCall(fn)
       \/ \E outcome \in FetchOutcomes : FetchAttempt(outcome)
       \/ \E outcome \in DownloadOutcomes : DownloadAttempt(outcome)
       \/ Sleep
    /\ UNCHANGED <<riskVars, brokerVars, factorVars, cacheVars, jobVars, bookVars>>

SpecRetry == InitFrame /\ [][NextRetry]_vars

\* a started call keeps running: its requests come back and its sleeps end
FairRetry ==
    /\ WF_retryVars(\E outcome \in FetchOutcomes : FetchAttempt(outcome))
    /\ WF_retryVars(\E outcome \in DownloadOutcomes : DownloadAttempt(outcome))
    /\ WF_retryVars(Sleep)

SpecRetryFair == SpecRetry /\ FairRetry

InitBook ==
    /\ account_size \in BookAccountSizes
    /\ max_position_pct \in MaxPositionPcts
    /\ InitRisk
    /\ credentials = TRUE
    /\ InitBroker
    /\ InitFactor
    /\ InitCache
    /\ InitRetry
    /\ InitJob
    /\ InitBookLog

\* the book under add_position and remove_position alone, its calls logged
NextBook ==
    /\ \/ \E t \in Tickers, price \in Prices, atr \in Atrs, rm \in RiskMultiples :
             LoggedAddPosition(t, price, atr, rm)
       \/ \E t \in Tickers : LoggedRemovePosition(t)
       \/ GetPortfolioRisk /\ UNCHANGED book_log
    /\ UNCHANGED <<brokerVars, factorVars, cacheVars, retryVars, jobVars>>

SpecBook == InitBook /\ [][NextBook]_vars

\* a table saved while the price provider reported a symbol with an ATR of 0
\* (no range and no move over the ATR window)
with_flat_symbol(table, flat) ==
    [symbol \in DOMAIN table |->
        IF symbol \in flat THEN [table[symbol] EXCEPT !.atr = 0] ELSE table[symbol]]

\* the cache files an earlier get_f_score call can have left: none, or the
\* scores of one universe saved at time 0
JobCaches ==
    {[universe \in Universes |-> NoFile]} \cup
    {[universe \in Universes |->
         IF universe = saved
         THEN save_to_cache(NoFile,
                            with_flat_symbol(
                                calculate_f_scores(get_universe_tickers(saved),
                                                   UniverseTickers(saved),
                                                   UniverseTickers(saved), {}, TRUE, score),
                                flat),
                            0, "ok")
         ELSE NoFile] : saved \in Universes, score \in Scores, flat \in {{}, {"MSFT"}}}

InitJobRun ==
    /\ InitDefaultRisk
    /\ credentials \in BOOLEAN
    /\ InitBroker
    /\ InitFactor
    /\ now = 0
    /\ cache_files \in JobCaches
    /\ fscore = None
    /\ fscore_calls = 0
    /\ ticks = 0
    /\ score_cache = << >>
    /\ score_result = None
    /\ score_calls = 0
    /\ recompute = None
    /\ recompute_calls = 0
    /\ InitRetry
    /\ InitJob
    /\ InitBookLog

\* the nightly job run again and again
NextJob ==
    /\ \E dry_run \in BOOLEAN, live \in BOOLEAN, fail \in JobFailures,
          universe \in Universes, read_ok \in BOOLEAN, score \in Scores,
          sma_200 \in BOOLEAN, api_error_at \in 0..Cardinality(Tickers),
          slack \in SlackOutcomes :
          Main(dry_run, live, fail, universe, read_ok, score, sma_200, api_error_at, slack)
    /\ UNCHANGED <<riskVars, factorVars, retryVars, bookVars>>

SpecJob == InitJobRun /\ [][NextJob]_vars

----------------------------------------------------------------------------
(* Properties *)

IsPosition(r) == "shares" \in DOMAIN r

IsStop(r) == "stop" \in DOMAIN r

IsDollarSize(r) == "dollars" \in DOMAIN r

\* every position of the book was sized with price > 0, atr > 0 and risk_multiple > 0
SizedWithPositiveAtr ==
    \A t \in DOMAIN positions : sized_with[t].atr > 0 /\ sized_with[t].risk_multiple > 0

StopsBelowEntry ==
    \A t \in DOMAIN positions : positions[t].stop_loss < positions[t].entry_price

\* C1 (as stated): after any sequence of the RiskManager operations on positions
\* sized with atr > 0, every position of the book has stop_loss < entry_price
C1_StopBelowEntryAlways == SizedWithPositiveAtr => StopsBelowEntry

\* C1 (amended): as long as calculate_trailing_stop has not been called, every
\* position of the book that was sized with atr > 0 and risk_multiple > 0 has
\* stop_loss < entry_price; add, remove and adjust keep it so
C1_StopBelowEntryUntilTrailed ==
    trail_calls = 0 =>
        \A t \in DOMAIN positions :
            (sized_with[t].atr > 0 /\ sized_with[t].risk_multiple > 0)
                => positions[t].stop_loss < positions[t].entry_price

\* C1 witness: two positions sized with atr > 0 that adjust_position_sizes has rescaled
C1_Witness ==
    /\ trail_calls = 0
    /\ adjust_calls > 0
    /\ Cardinality(DOMAIN positions) = 2
    /\ SizedWithPositiveAtr
    /\ \E t \in DOMAIN positions :
          positions[t].shares > 0 /\ positions[t].risk_amount * PctScale < account_size

\* C2 (as stated): every position calculate_position_size returns, atr = 0
\* included, has stop_loss < entry_price
C2_SizedStopBelowEntryAlways ==
    IsPosition(ret) => ret.stop_loss < ret.entry_price

\* C2 (amended): the returned position has stop_loss < entry_price when atr > 0
\* and risk_multiple > 0; with atr = 0 it has stop_loss = entry_price and 0 shares
C2_SizedStopBelowEntry ==
    IsPosition(ret) =>
        /\ (args.atr > 0 /\ args.risk_multiple > 0) => ret.stop_loss < ret.entry_price
        /\ args.atr = 0 => (ret.stop_loss = ret.entry_price /\ ret.shares = 0)

\* C2 witness: a sizing call with atr > 0 that returned shares
C2_Witness ==
    /\ IsPosition(ret)
    /\ args.atr > 0
    /\ ret.shares > 0
    /\ ret.stop_loss = args.price - args.atr * args.risk_multiple

\* C3: with price > 0 and atr > 0, calculate_position_size returns shares >= 0
\* and dollar_amount <= account_size * max_position_pct
C3_SharesAndValueBounded ==
    (IsPosition(ret) /\ args.price > 0 /\ args.atr > 0) =>
        /\ ret.shares >= 0
        /\ ret.dollar_amount * PctScale <= account_size * max_position_pct

\* C3 witness: a sizing call in which the position-value cap cut the share count
C3_Witness ==
    /\ IsPosition(ret)
    /\ args.atr > 0
    /\ ret.shares > 0
    /\ (ret.shares + 1) * ret.entry_price * PctScale > account_size * max_position_pct
    /\ (ret.shares + 1) * (ret.entry_price - ret.stop_loss) * PctScale
           <= account_size * max_risk_pct

\* C4: every position of the book has risk_amount <= account_size * max_risk_pct,
\* and a book of n positions has total_risk_pct <= n * max_risk_pct
C4_RiskWithinBudget ==
    /\ \A t \in DOMAIN positions :
          positions[t].risk_amount * PctScale <= account_size * max_risk_pct
    /\ PctLeq(get_portfolio_risk(positions).total_risk_pct,
              Cardinality(DOMAIN positions) * max_risk_pct)

\* C4 witness: a freshly sized book of two positions, both carrying risk, one
\* of them using the risk budget to the last share
C4_Witness ==
    /\ Cardinality(DOMAIN positions) = 2
    /\ \A t \in DOMAIN positions : positions[t].risk_amount > 0
    /\ \E t \in DOMAIN positions :
          (positions[t].risk_amount + positions[t].entry_price - positions[t].stop_loss)
              * PctScale > account_size * max_risk_pct
    /\ adjust_calls = 0 /\ trail_calls = 0

\* C5 (as stated): adjust_position_sizes(cap) leaves total_risk_pct no greater
\* than before the call and no greater than cap
C5_AdjustKeepsRiskUnderCap ==
    [][\A cap \in PortfolioRiskCaps :
          AdjustPositionSizes(cap) =>
              /\ PctLeq(get_portfolio_risk(positions').total_risk_pct, cap)
              /\ FracLeq(get_portfolio_risk(positions').total_risk_pct,
                         get_portfolio_risk(positions).total_risk_pct)]_vars

\* C6: a calculate_trailing_stop call on a position of the book never lowers
\* the stored stop, returns a stop no lower than the one stored before, and with
\* current_price <= entry_price returns the stored stop and leaves it unchanged
C6_TrailingStopMonotone ==
    [][\A t \in Tickers, current_price \in CurrentPrices, atr_multiple \in AtrMultiples :
          (CalculateTrailingStop(t, current_price, atr_multiple) /\ t \in DOMAIN positions) =>
              /\ positions'[t].stop_loss >= positions[t].stop_loss
              /\ ret'.stop >= positions[t].stop_loss
              /\ ret'.stop = positions'[t].stop_loss
              /\ current_price <= positions[t].entry_price =>
                     /\ ret'.stop = positions[t].stop_loss
                     /\ positions'[t].stop_loss = positions[t].stop_loss]_vars

\* C6 witness: a trailing-stop call has raised a position's stop and returned it
C6_Witness ==
    /\ IsStop(ret)
    /\ \E t \in DOMAIN positions :
          /\ positions[t].stop_loss > sized_with[t].stop_loss
          /\ ret.stop = positions[t].stop_loss

\* the order arguments submit_bracket accepts
ValidBracket(c) ==
    /\ c.qty > 0
    /\ c.take_profit_price > c.entry_price
    /\ c.entry_price > c.stop_loss_price
    /\ c.stop_loss_price > 0

\* C7: submit_bracket raises ValueError and makes no broker client call when
\* qty <= 0, a price is <= 0, take_profit_price <= entry_price or
\* stop_loss_price >= entry_price; submit_order is reached only with qty > 0 and
\* take_profit_price > entry_price > stop_loss_price > 0
C7_BracketValidatedBeforeBroker ==
    /\ bracket # None =>
          /\ ~ValidBracket(bracket.call) =>
                 /\ bracket.raised = "ValueError"
                 /\ bracket.client_calls = 0
                 /\ bracket.submit_order_calls = 0
          /\ bracket.submit_order_calls > 0 => ValidBracket(bracket.call)
    /\ \A i \in 1..Len(orders) : ValidBracket(orders[i])

\* C7 witness: an order whose only fault is stop_loss_price = entry_price was
\* rejected, after an earlier valid order had reached submit_order
C7_Witness ==
    /\ bracket # None
    /\ bracket.call.qty > 0
    /\ bracket.call.take_profit_price > bracket.call.entry_price
    /\ bracket.call.stop_loss_price = bracket.call.entry_price
    /\ bracket.raised = "ValueError"
    /\ bracket.message = "Stop loss price must be less than entry price"
    /\ bracket.client_calls = 0
    /\ Len(orders) = 1

\* C8: entry[t] is true only at bars where the trend baseline is defined, that
\* is from the SmaWindow-th bar on; before it entry is false whatever the score
C8_EntryNeedsBaseline ==
    LET factor_df == build_factor_df(df, Thr)
    IN \A t \in 1..Len(df) :
           factor_df[t].entry => (t >= SmaWindow /\ ~factor_df[t].sma_200.nan)

\* C8 witness: a frame with a bar before the window is full whose score passes
\* the threshold, and a later bar where entry is true
C8_Witness ==
    LET factor_df == build_factor_df(df, Thr)
    IN /\ \E t \in 1..Len(df) : t < SmaWindow /\ df[t].score >= Thr /\ ~factor_df[t].entry
       /\ \E t \in 1..Len(df) : factor_df[t].entry

\* C9: no lookahead: appending bars to the frame leaves sma_200, atr, entry,
\* entry_price, atr_stop and exit at every earlier bar as they were, so two
\* frames that agree up to bar t have the same values at bar t
C9_NoLookahead ==
    [][Len(df') = Len(df) + 1 =>
          \A t \in 1..Len(df) :
              build_factor_df(df', Thr)[t] = build_factor_df(df, Thr)[t]]_vars

\* C9 witness: a full-length frame with an entry bar followed by a bar that is
\* not an entry and closes at another price
C9_Witness ==
    LET factor_df == build_factor_df(df, Thr)
    IN /\ Len(df) = MaxBars
       /\ \E t \in 1..(Len(df) - 1) :
             /\ factor_df[t].entry
             /\ ~factor_df[t + 1].entry
             /\ df[t + 1].close # df[t].close
             /\ factor_df[t + 1].entry_price = Val(df[t].close, 1)

\* C10 (as stated): when a cache file of the universe exists and was written
\* less than 86,400 s ago, get_f_score returns the stored table unchanged and
\* calls neither the scorer nor the price provider; when it is missing or at
\* least 86,400 s old, get_f_score recomputes the table and writes it back
C10_FreshCacheReturnedElseRecomputed ==
    [][\A universe \in Universes :
          (fscore_calls' = fscore_calls + 1 /\ fscore'.universe = universe) =>
              LET file == cache_files[universe]
                  fresh == file.exists /\ now - file.mtime < cache_freshness
              IN /\ fresh =>
                        /\ fscore'.returned = file.content
                        /\ fscore'.scorer_calls = 0
                        /\ fscore'.price_calls = 0
                        /\ cache_files' = cache_files
                 /\ ~fresh =>
                        /\ fscore'.recomputed
                        /\ fscore'.save # "none"]_vars

\* C11 (as stated): a failed read of the score store is a cache miss:
\* get_f_score then recomputes and returns the scores, get_score recomputes
\* too, and the read failure raises nothing in the caller
C11_ReadFailureIsCacheMiss ==
    /\ (fscore # None /\ fscore.read = "failed") =>
           /\ fscore.recomputed
           /\ fscore.raised = "none"
    /\ (score_result # None /\ score_result.call.read = "failed") =>
           /\ score_result.recomputed
           /\ score_result.raised # "none" =>
                  score_result.cause \in {"FMP_KEY environment variable not set", "scorer"}

\* C12: when the write of the recomputed table fails, get_f_score returns the
\* freshly computed table and raises nothing; when _cache_result fails,
\* get_score returns the freshly computed score and raises nothing
C12_WriteFailureNotFatal ==
    [][/\ \A universe \in Universes, read_ok \in BOOLEAN, score \in Scores :
             (/\ GetFScore(universe, read_ok, TRUE, UniverseTickers(universe),
                           UniverseTickers(universe), {}, TRUE, score, "failed")
              /\ ~cache_is_fresh(cache_files[universe], now)) =>
                 /\ fscore'.raised = "none"
                 /\ fscore'.returned =
                        calculate_f_scores(get_universe_tickers(universe),
                                           UniverseTickers(universe),
                                           UniverseTickers(universe), {}, TRUE, score)
                 /\ cache_files' = cache_files
       /\ \A ticker \in Tickers, read_ok \in BOOLEAN, score \in Scores :
             (/\ GetScore(ticker, read_ok, TRUE, TRUE, score, FALSE)
              /\ get_from_cache(score_cache, ticker, today(now), read_ok) = None) =>
                 /\ score_result'.raised = "none"
                 /\ score_result'.returned = [score |-> score]
                 /\ score_cache' = score_cache]_vars

\* C12 witness: the last get_f_score recomputed a table of two symbols and
\* returned it although its write failed and left no file, and the last
\* get_score returned a computed score although its write failed
C12_Witness ==
    /\ fscore # None
    /\ fscore.recomputed
    /\ fscore.save = "failed"
    /\ fscore.raised = "none"
    /\ fscore.returned # None
    /\ DOMAIN fscore.returned = {"AAPL", "MSFT"}
    /\ cache_files[fscore.universe] = NoFile
    /\ score_result # None
    /\ score_result.recomputed
    /\ score_result.write = "failed"
    /\ score_result.returned # None
    /\ <<score_result.call.ticker, score_result.call.day>> \notin DOMAIN score_cache

\* the position of a ticker in a list without repetitions
PositionIn(l, t) == CHOOSE i \in DOMAIN l : l[i] = t

\* C13: in a recomputation the scorer failure of one symbol removes only that
\* symbol: each symbol of the universe is tried exactly once, the scorer is
\* called at most once per symbol, every later symbol of the same batch and of
\* later batches is still scored, and the returned table holds exactly the
\* symbols that have a score, a close and an ATR
C13_FailureDropsOnlyThatSymbol ==
    (recompute # None /\ recompute.tickers # << >>) =>
        LET has_score(t) == /\ t \in recompute.index
                            /\ ~(recompute.api_key /\ t \in recompute.failed)
        IN /\ recompute.attempts = recompute.tickers
           /\ \A t \in Range(recompute.tickers) :
                 Cardinality({i \in DOMAIN recompute.scorer_calls :
                                 recompute.scorer_calls[i] = t}) <= 1
           /\ \A f \in recompute.failed, t \in Range(recompute.tickers) :
                 (/\ PositionIn(recompute.tickers, t) > PositionIn(recompute.tickers, f)
                  /\ has_score(t) /\ t \in recompute.complete) =>
                     t \in DOMAIN recompute.returned
           /\ DOMAIN recompute.returned =
                 {t \in Range(recompute.tickers) : has_score(t) /\ t \in recompute.complete}

\* C13 witness: a list of two batches in which the scorer failed for the first
\* symbol, and the second symbol of that batch and the symbol of the next batch
\* are in the returned table
C13_Witness ==
    /\ recompute # None
    /\ Len(recompute.tickers) = BatchSize + 1
    /\ recompute.api_key
    /\ recompute.failed = {recompute.tickers[1]}
    /\ DOMAIN recompute.returned = {recompute.tickers[2], recompute.tickers[BatchSize + 1]}
    /\ Len(recompute.scorer_calls) = BatchSize + 1

\* the attempts of the call so far, the last one included, all failed
AllAttemptsFailed(r) == \A i \in DOMAIN r.attempts : r.attempts[i] # "ok"

\* the bounds of a retried call: at most max_retries attempts, none after a
\* success, one sleep between two attempts and no other, RuntimeError when the
\* last allowed attempt fails
RetryBounded ==
    retry # None =>
        /\ Len(retry.attempts) <= max_retries
        /\ \A i \in DOMAIN retry.attempts :
              retry.attempts[i] = "ok" =>
                  /\ i = Len(retry.attempts)
                  /\ retry.pc = "done"
                  /\ retry.result = "returned"
        /\ retry.pc = "attempt" => retry.sleeps = Len(retry.attempts)
        /\ retry.pc \in {"sleep", "done"} => retry.sleeps = Len(retry.attempts) - 1
        /\ retry.pc = "sleep" => Len(retry.attempts) < max_retries
        /\ (Len(retry.attempts) = max_retries /\ AllAttemptsFailed(retry)) =>
              /\ retry.pc = "done"
              /\ retry.result = "RuntimeError"
              /\ retry.sleeps = max_retries - 1
        /\ retry.result = "returned" =>
              retry.attempts[Len(retry.attempts)] = "ok"
        /\ retry.pc = "done" => retry.result \in {"returned", "RuntimeError"}

\* C14: a retried network call (fetch_fundamentals, download_with_retry) ends
\* after at most 3 attempts: a successful attempt returns at once, a delay is
\* taken only between attempts (2 delays for 3 failed attempts), and the call
\* raises RuntimeError when the third attempt fails
C14_RetryTerminates ==
    /\ []RetryBounded
    /\ (retry # None) ~> (retry # None /\ retry.pc = "done")

\* C14 witness: fetch_fundamentals, called after an earlier call had ended, has
\* raised RuntimeError after three failed attempts and two sleeps
C14_Witness ==
    /\ retry # None
    /\ retry_calls = MaxRetryCalls
    /\ retry.fn = "fetch_fundamentals"
    /\ retry.attempts = <<"rate_limited", "connection_error", "rate_limited">>
    /\ retry.sleeps = 2
    /\ retry.pc = "done"
    /\ retry.result = "RuntimeError"

\* the scenario of C15 on the frame: closes strictly increasing, exactly one
\* entry bar, no exit signal after it
OneEntryUptrend(f) ==
    LET factor_df == build_factor_df(f, Thr)
        entry_bars == {t \in 1..Len(f) : factor_df[t].entry}
    IN /\ Len(f) > 0
       /\ \A t \in 2..Len(f) : f[t].close > f[t - 1].close
       /\ Cardinality(entry_bars) = 1
       /\ \A t \in 1..Len(f), e \in entry_bars : t > e => ~factor_df[t].exit

\* the close of the one entry bar
EntryClose(f) ==
    LET factor_df == build_factor_df(f, Thr)
    IN f[CHOOSE t \in 1..Len(f) : factor_df[t].entry].close

\* (1 + fees) * (1 + slippage)
CostFactor == FracMul(FracAdd(One, fees), FracAdd(One, slippage))

\* (final_close / entry_price - 1) * 100 net of fees and slippage:
\* (final_close / (entry_price * (1 + fees) * (1 + slippage)) - 1) * 100
NetReturnPct(f) ==
    FracMul(FracSub(FracDiv([num |-> f[Len(f)].close, den |-> 1],
                            FracMul([num |-> EntryClose(f), den |-> 1], CostFactor)),
                    One),
            [num |-> 100, den |-> 1])

\* C15 (as stated): on a strictly increasing price series with exactly one
\* entry bar and no later exit, backtest reports max_drawdown_pct = 0 and
\* total_return_pct = (final_close / entry_price - 1) * 100 net of fees and
\* slippage
C15_UptrendNoDrawdown ==
    OneEntryUptrend(df) =>
        /\ backtest(df, Thr).max_dd = Val(0, 1)
        /\ backtest(df, Thr).total_return = NetReturnPct(df)

\* C15 (amended): in that scenario total_return_pct is
\* (final_close / (entry_price * (1 + fees) * (1 + slippage)) - 1) * 100 and
\* max_drawdown_pct is the cost of the entry, (1 - 1 / ((1 + fees) * (1 +
\* slippage))) * 100, about 0.1997, as long as the entry bar is not the first
\* bar of the series
C15_UptrendDrawdownIsEntryCost ==
    OneEntryUptrend(df) =>
        LET cost == FracMul(FracSub(One, FracDiv(One, CostFactor)), [num |-> 100, den |-> 1])
        IN /\ backtest(df, Thr).total_return = NetReturnPct(df)
           /\ backtest(df, Thr).max_dd = Val(cost.num, cost.den)

\* C15 witness: a strictly increasing frame whose one entry bar is followed by
\* a higher close, so that the position is held with a gain
C15_Witness ==
    /\ OneEntryUptrend(df)
    /\ Len(df) > SmaWindow
    /\ df[Len(df)].close > EntryClose(df)
    /\ build_factor_df(df, Thr)[Len(df) - 1].entry
    /\ backtest(df, Thr).total_return.num > 0
    /\ ~backtest(df, Thr).max_dd.nan

\* C16: when the risk-based share count floor(account_size * max_risk_pct /
\* risk_per_share) would cost more than account_size * max_position_pct,
\* calculate_position_size returns floor(account_size * max_position_pct /
\* price) shares; price 100, stop 95, account 10000, max_risk_pct 0.01 and
\* max_position_pct 0.05 give 5 shares
C16_PositionCapReplacesRiskCount ==
    (IsPosition(ret) /\ args.atr * args.risk_multiple > 0) =>
        LET risk_per_share == args.atr * args.risk_multiple
            risk_based == (account_size * max_risk_pct) \div (PctScale * risk_per_share)
        IN /\ risk_based * args.price * PctScale > account_size * max_position_pct =>
                 /\ ret.shares = (account_size * max_position_pct) \div (PctScale * args.price)
                 /\ ret.dollar_amount = ret.shares * args.price
           /\ (/\ args.price = 100 /\ risk_per_share = 5 /\ account_size = 10000
               /\ max_risk_pct = DefaultMaxRiskPct
               /\ max_position_pct = DefaultMaxPositionPct) =>
                 (risk_based = 20 /\ ret.shares = 5)

\* C16 witness: the sizing call of the scenario, returning 5 shares for 500
\* dollars with the stop at 95
C16_Witness ==
    /\ IsPosition(ret)
    /\ account_size = 10000
    /\ max_risk_pct = DefaultMaxRiskPct
    /\ max_position_pct = DefaultMaxPositionPct
    /\ args.price = 100
    /\ ret.stop_loss = 95
    /\ ret.shares = 5
    /\ ret.dollar_amount = 500

\* C17: position_size(price, atr, account_size, risk_pct) returns
\* (account_size * risk_pct) / (2 * atr) * price for atr # 0, so
\* position_size(100, 2, 10000, 0.01) = 2500, and for price > 0, atr > 0 and
\* account_size > 0 the result is positive and non-decreasing in risk_pct
\* (over the risk percentages 0 < risk_pct <= 1)
C17_DollarSizeFormula ==
    (IsDollarSize(ret) /\ args.atr # 0) =>
        /\ \* ret * (2 * atr) = account_size * risk_pct * price
           FracMul(ret.dollars, [num |-> 2 * args.atr, den |-> 1])
               = FracMul(Frac(args.account_size * args.risk_pct, PctScale),
                         [num |-> args.price, den |-> 1])
        /\ (/\ args.price = 100 /\ args.atr = 2 /\ args.account_size = 10000
            /\ args.risk_pct = DefaultRiskPct) =>
              ret.dollars = [num |-> 2500, den |-> 1]
        /\ (args.price > 0 /\ args.atr > 0 /\ args.account_size > 0) =>
              /\ ret.dollars.num > 0
              /\ \A risk_pct \in RiskPcts :
                    risk_pct >= args.risk_pct =>
                        FracLeq(ret.dollars,
                                position_size(args.price, args.atr, args.account_size,
                                              risk_pct))

\* C17 witness: the call position_size(100, 2, 10000, 0.01), returning 2500
C17_Witness ==
    /\ IsDollarSize(ret)
    /\ args.price = 100 /\ args.atr = 2 /\ args.account_size = 10000
    /\ args.risk_pct = DefaultRiskPct
    /\ ret.dollars = [num |-> 2500, den |-> 1]

\* C18: with atr = 0, price > 0 and account_size > 0 sizing raises no division
\* error: calculate_position_size returns shares = 0 with dollar_amount = 0 and
\* risk_amount = 0, and position_size returns 0
C18_ZeroAtrSizesToZero ==
    /\ ("ticker" \in DOMAIN args /\ args.atr = 0 /\ args.price > 0 /\ account_size > 0) =>
          /\ IsPosition(ret)
          /\ ret.shares = 0
          /\ ret.dollar_amount = 0
          /\ ret.risk_amount = 0
    /\ ("risk_pct" \in DOMAIN args /\ args.atr = 0 /\ args.price > 0
           /\ args.account_size > 0) =>
          /\ IsDollarSize(ret)
          /\ ret.dollars.num = 0

\* C18 witness: a calculate_position_size call with atr = 0 on a funded
\* account, returning a position of no shares with its stop at the price
C18_Witness ==
    /\ "ticker" \in DOMAIN args
    /\ args.atr = 0
    /\ account_size > 0
    /\ IsPosition(ret)
    /\ ret.shares = 0
    /\ ret.risk_pct.num = 0
    /\ ret.stop_loss = args.price

IsTakeProfit(r) == "take_profit" \in DOMAIN r

\* C20: calculate_take_profit returns entry_price + (entry_price - stop_loss) *
\* risk_reward_ratio, the ratio being 2 when it is not given (so entry 100 with
\* stop 90 gives 120), and for stop_loss < entry_price and risk_reward_ratio > 0
\* the take-profit is strictly above entry_price
C20_TakeProfitAboveEntry ==
    IsTakeProfit(ret) =>
        /\ args.given =>
              ret.take_profit = args.entry_price
                  + (args.entry_price - args.stop_loss) * args.risk_reward_ratio
        /\ ~args.given =>
              ret.take_profit = args.entry_price
                  + (args.entry_price - args.stop_loss) * 2
        /\ (~args.given /\ args.entry_price = 100 /\ args.stop_loss = 90) =>
              ret.take_profit = 120
        /\ (args.stop_loss < args.entry_price
               /\ (args.given => args.risk_reward_ratio > 0)) =>
              ret.take_profit > args.entry_price

\* C20 witness: the call of the test, entry 100 with stop 90 and the default
\* ratio, returning 120
C20_Witness ==
    /\ IsTakeProfit(ret)
    /\ ~args.given
    /\ args.entry_price = 100
    /\ args.stop_loss = 90
    /\ ret.take_profit = 120

\* C19: the nightly job calls submit_bracket only when --live is set and
\* --dry-run is not; a dry run submits no order for any symbol, and when none
\* of its steps raises it has written the memo and called post_to_slack
C19_OrdersOnlyInLiveRuns ==
    [][job_calls' # job_calls =>
         /\ (job'.submit_bracket_calls > 0 \/ orders' # orders) =>
               job'.args.live /\ ~job'.args.dry_run
         /\ job'.args.dry_run =>
               /\ job'.submit_bracket_calls = 0
               /\ orders' = orders
               /\ bracket_calls' = bracket_calls
               /\ job'.raised = "none" =>
                     /\ job'.memo_written
                     /\ memo_file' = job'.top_stocks
                     /\ job'.slack_called]_vars

\* C19 witness: a run with both --dry-run and --live that picked stocks, wrote
\* its memo and posted its summary to Slack, with no order at the broker
C19_Witness ==
    /\ job # None
    /\ job.args.dry_run /\ job.args.live
    /\ job.raised = "none"
    /\ job.top_stocks # << >>
    /\ memo_file = job.top_stocks
    /\ slack_posts # << >>
    /\ slack_posts[Len(slack_posts)].dry_run
    /\ orders = << >>
    /\ job.submit_bracket_calls = 0

IsPortfolioRisk(r) == "portfolio_risk" \in DOMAIN r

\* the last call of the log on a ticker, 0 when there is none
LastCall(t) ==
    LET on == {i \in DOMAIN book_log : book_log[i].ticker = t}
    IN IF on = {} THEN 0 ELSE CHOOSE i \in on : \A j \in on : j <= i

\* the tickers whose last logged call is an add_position
Held == {t \in Tickers : LastCall(t) # 0 /\ book_log[LastCall(t)].op = "add"}

\* C21: after any sequence of add_position and remove_position calls
\* get_portfolio_risk reports position_count = the number of tickers in the
\* book (a ticker is in the book when its last call is an add, whose position
\* replaces any earlier one), total_value and total_risk_amount = the sums of
\* dollar_amount and risk_amount over those positions, and total_risk_pct =
\* total_risk_amount / account_size, or 0 when account_size <= 0
C21_PortfolioRiskSumsBook ==
    IsPortfolioRisk(ret) =>
        LET r == ret.portfolio_risk
            data == [t \in Held |-> book_log[LastCall(t)].position_data]
            held_value == SumOver([t \in Held |-> data[t].dollar_amount], Held)
            held_risk == SumOver([t \in Held |-> data[t].risk_amount], Held)
        IN /\ DOMAIN positions = Held
           /\ r.position_count = Cardinality(Held)
           /\ r.total_value = held_value
           /\ r.total_risk_amount = held_risk
           /\ IF account_size > 0
              THEN /\ r.total_risk_pct.den # 0
                   /\ r.total_risk_pct.num * account_size
                          = held_risk * r.total_risk_pct.den
              ELSE r.total_risk_pct.num = 0

\* C21 witness: a report on a book of one position carrying risk, after a
\* ticker was added twice and a ticker was removed
C21_Witness ==
    /\ IsPortfolioRisk(ret)
    /\ ret.portfolio_risk.position_count = 1
    /\ ret.portfolio_risk.total_risk_amount > 0
    /\ \E i, j \in DOMAIN book_log :
          /\ i < j
          /\ book_log[i].op = "add" /\ book_log[j].op = "add"
          /\ book_log[i].ticker = book_log[j].ticker
          /\ book_log[i].position_data # book_log[j].position_data
    /\ \E k \in DOMAIN book_log : book_log[k].op = "remove"

\* C22 (as stated): a run of the nightly job in which no symbol survives the
\* filters of get_top_stocks ends in an error, it does not complete as a success
C22_EmptySelectionIsError ==
    (job # None /\ job.top_stocks = << >>) => job.raised # "none"

IsAdjusted(r) == "adjusted" \in DOMAIN r

\* the sum of risk_amount over a book
TotalRisk(book) == SumOver([t \in DOMAIN book |-> book[t].risk_amount], DOMAIN book)

\* total_risk_pct <= cap on an account of positive size
WithinCap(book, cap) == TotalRisk(book) * PctScale <= cap * account_size

\* C23: when the book's total_risk_pct is <= max_portfolio_risk_pct,
\* adjust_position_sizes is a no-op: the set of tickers and every field of
\* every position are unchanged, and the book is what it returns
C23_AdjustUnderCapIsNoOp ==
    [][\A cap \in PortfolioRiskCaps :
          (AdjustPositionSizes(cap) /\ WithinCap(positions, cap)) =>
              /\ DOMAIN positions' = DOMAIN positions
              /\ \A t \in DOMAIN positions :
                    /\ positions'[t].shares = positions[t].shares
                    /\ positions'[t].dollar_amount = positions[t].dollar_amount
                    /\ positions'[t].risk_amount = positions[t].risk_amount
                    /\ positions'[t].risk_pct = positions[t].risk_pct
                    /\ positions'[t].entry_price = positions[t].entry_price
                    /\ positions'[t].stop_loss = positions[t].stop_loss
              /\ ret'.adjusted = positions]_vars

\* C23 witness: adjust_position_sizes has returned a book of two positions
\* whose risk, above 0, was within the cap
C23_Witness ==
    /\ IsAdjusted(ret)
    /\ ret.portfolio_risk.total_risk_amount > 0
    /\ PctLeq(ret.portfolio_risk.total_risk_pct, ret.max_portfolio_risk_pct)
    /\ ret.portfolio_risk.position_count = 2
    /\ ret.adjusted = positions
    /\ Cardinality(DOMAIN positions) = 2

\* floor(shares * cap / total_risk_pct) for a position of a book over the cap
ScaledShares(book, t, cap) ==
    (book[t].shares * cap * account_size) \div (PctScale * TotalRisk(book))

\* C24: when total_risk_pct exceeds the cap, adjust_position_sizes leaves in
\* the book exactly the tickers whose floor(shares * cap / total_risk_pct) is
\* > 0, each with that share count, dollar_amount = new_shares * entry_price,
\* risk_amount = new_shares * (entry_price - stop_loss) and entry_price and
\* stop_loss unchanged; no share count increases
C24_AdjustOverCapScalesShares ==
    [][\A cap \in PortfolioRiskCaps :
          (AdjustPositionSizes(cap) /\ ~WithinCap(positions, cap)) =>
              /\ DOMAIN positions' =
                    {t \in DOMAIN positions : ScaledShares(positions, t, cap) > 0}
              /\ \A t \in DOMAIN positions' :
                    LET new_shares == ScaledShares(positions, t, cap)
                    IN /\ positions'[t].shares = new_shares
                       /\ positions'[t].dollar_amount = new_shares * positions[t].entry_price
                       /\ positions'[t].risk_amount =
                             new_shares * (positions[t].entry_price - positions[t].stop_loss)
                       /\ positions'[t].entry_price = positions[t].entry_price
                       /\ positions'[t].stop_loss = positions[t].stop_loss
                       /\ positions'[t].shares <= positions[t].shares]_vars

\* C24 witness: adjust_position_sizes has scaled a book of two positions that
\* was over the cap, dropped one and kept the other with fewer shares
C24_Witness ==
    /\ IsAdjusted(ret)
    /\ ~PctLeq(ret.portfolio_risk.total_risk_pct, ret.max_portfolio_risk_pct)
    /\ ret.portfolio_risk.position_count = 2
    /\ ret.adjusted = positions
    /\ Cardinality(DOMAIN positions) = 1
    /\ \E t \in DOMAIN positions :
          positions[t].shares * positions[t].entry_price < ret.portfolio_risk.total_value

\* the entry bars of a factor frame at or before bar t
EntryBarsUpTo(factor_df, t) == {k \in 1..t : factor_df[k].entry}

\* C25: in build_factor_df entry_price[t] is the close of the most recent bar
\* <= t where entry was true; at every bar before the first entry bar
\* entry_price and atr_stop are undefined and exit_atr is false, so exit there
\* is the trend exit alone
C25_EntryPriceCarriedForward ==
    LET factor_df == build_factor_df(df, Thr)
    IN \A t \in 1..Len(df) :
           LET bars == EntryBarsUpTo(factor_df, t)
           IN IF bars = {}
              THEN /\ factor_df[t].entry_price.nan
                   /\ factor_df[t].atr_stop.nan
                   /\ ~factor_df[t].exit_atr
                   /\ factor_df[t].exit = factor_df[t].exit_sma
              ELSE LET last == CHOOSE k \in bars : \A j \in bars : j <= k
                   IN /\ ~factor_df[t].entry_price.nan
                      /\ factor_df[t].entry_price.num
                            = df[last].close * factor_df[t].entry_price.den

\* C25 witness: a frame whose first entry bar comes after a bar with a trend
\* exit and is followed by a bar that is no entry, closes elsewhere and
\* carries the entry bar's close as its entry_price
C25_Witness ==
    LET factor_df == build_factor_df(df, Thr)
    IN \E e \in 2..(Len(df) - 1) :
          /\ EntryBarsUpTo(factor_df, e) = {e}
          /\ \E t \in 1..(e - 1) : factor_df[t].exit /\ factor_df[t].entry_price.nan
          /\ ~factor_df[e + 1].entry
          /\ df[e + 1].close # df[e].close
          /\ factor_df[e + 1].entry_price = Val(df[e].close, 1)

\* C27: in the frame build_factor_df produces entry and exit are never both
\* true at one bar: where entry[t] holds, close[t] is above the trend baseline
\* and atr_stop[t] = close[t] - 2 * atr[t] <= close[t], so neither exit fires
C27_EntryExcludesExit ==
    LET factor_df == build_factor_df(df, Thr)
    IN \A t \in 1..Len(df) :
           factor_df[t].entry =>
               /\ GtCell(df[t].close, factor_df[t].sma_200)
               /\ ~factor_df[t].exit_sma
               /\ ~factor_df[t].atr_stop.nan =>
                      factor_df[t].atr_stop.num <= df[t].close * factor_df[t].atr_stop.den
               /\ ~factor_df[t].exit_atr
               /\ ~factor_df[t].exit

\* C27 witness: an entry bar whose ATR stop lies strictly below its close, in
\* a frame that also has an exit bar
C27_Witness ==
    LET factor_df == build_factor_df(df, Thr)
    IN /\ \E t \in 1..Len(df) :
             /\ factor_df[t].entry
             /\ ~factor_df[t].atr_stop.nan
             /\ factor_df[t].atr_stop.num < df[t].close * factor_df[t].atr_stop.den
             /\ ~factor_df[t].exit
       /\ \E t \in 1..Len(df) : factor_df[t].exit /\ ~factor_df[t].entry

\* C26 (as stated): every calculate_trailing_stop call that updates a
\* position's stop, the second and later updates included, sets it to
\* current_price - max(d, atr_multiple * d / 2), d being the distance between
\* entry_price and the stop the position was added with, so the stop stays at
\* least d below current_price
C26_TrailingKeepsOriginalDistance ==
    [][\A t \in Tickers, current_price \in CurrentPrices, atr_multiple \in AtrMultiples :
          (/\ CalculateTrailingStop(t, current_price, atr_multiple)
           /\ t \in DOMAIN positions
           /\ positions'[t].stop_loss # positions[t].stop_loss) =>
              LET d == positions[t].entry_price - sized_with[t].stop_loss
              IN /\ positions'[t].stop_loss
                       = current_price - Max(d, (atr_multiple * d) \div 2)
                 /\ positions'[t].stop_loss <= current_price - d]_vars

\* C28 (as stated): after any sequence of RiskManager operations on positions
\* produced by calculate_position_size, every position of the book has
\* dollar_amount = shares * entry_price and risk_amount = shares *
\* (entry_price - stop_loss), so the total_risk_amount get_portfolio_risk
\* reports is the risk the current stops imply
C28_AmountsFollowStops ==
    /\ \A t \in DOMAIN positions :
          /\ positions[t].dollar_amount = positions[t].shares * positions[t].entry_price
          /\ positions[t].risk_amount =
                positions[t].shares * (positions[t].entry_price - positions[t].stop_loss)
    /\ get_portfolio_risk(positions).total_risk_amount =
          SumOver([t \in DOMAIN positions |->
                      positions[t].shares
                          * (positions[t].entry_price - positions[t].stop_loss)],
                  DOMAIN positions)

\* C29 (as stated): for price > 0, atr > 0, account_size > 0 and
\* 0 < risk_pct <= 1 the dollar allocation position_size returns never
\* exceeds account_size
C29_DollarSizeWithinAccount ==
    (/\ IsDollarSize(ret)
     /\ args.price > 0 /\ args.atr > 0 /\ args.account_size > 0
     /\ args.risk_pct > 0 /\ args.risk_pct <= PctScale) =>
        ret.dollars.num <= args.account_size * ret.dollars.den

\* the submit_order calls the Alpaca client received during the step
SentInRun == SubSeq(orders', Len(orders) + 1, Len(orders'))

\* a row of the selection that submit_bracket rejects: a size of 0 from an
\* ATR of 0, or a stop at or below 0
Rejected(row) == row.atr = 0 \/ row.close - (JobStopAtrs * row.atr) <= 0

\* C30: in a live nightly run the orders are submitted one symbol at a time, in
\* the order of the selection, after the memo is written and before the Slack
\* summary is posted; when submit_bracket raises for a symbol the exception
\* leaves main: no submit_bracket call and no order follows for a later
\* symbol, the summary is not posted, and the orders sent before stay with the
\* broker. A symbol with an ATR of 0 or a stop at or below 0 makes it raise.
C30_FailedOrderStopsLiveRun ==
    [][(job_calls' # job_calls /\ job'.args.live /\ ~job'.args.dry_run) =>
         LET n == job'.submit_bracket_calls
             top == job'.top_stocks
         IN /\ n > 0 => job'.memo_written /\ memo_file' = top
            /\ n <= Len(top)
            /\ SubSeq(orders', 1, Len(orders)) = orders
            /\ Len(SentInRun) <= n
            /\ \A i \in 1..Len(SentInRun) : SentInRun[i].symbol = top[i]
            /\ job'.slack_called => job'.raised = "none" /\ n = Len(top)
            /\ (job'.raised = "none" /\ n > 0) =>
                  Len(SentInRun) = n /\ bracket'.raised = "none"
            /\ job'.raised = "submit_bracket" =>
                  /\ n >= 1
                  /\ bracket'.raised # "none"
                  /\ bracket'.call.symbol = top[n]
                  /\ Len(SentInRun) >= n - 1
                  /\ ~job'.slack_called
                  /\ slack_posts' = slack_posts
            /\ job'.memo_written =>
                  \A i \in 1..Len(top) :
                     Rejected(fscore'.returned[top[i]]) =>
                        job'.raised = "submit_bracket" /\ n <= i]_vars

\* C30 witness: a live run that selected two symbols, the second with an ATR
\* of 0: its memo is written, the first symbol's order is with the broker, the
\* second call was rejected for its quantity and nothing was posted to Slack
C30_Witness ==
    /\ job # None
    /\ job.args.live /\ ~job.args.dry_run
    /\ job.raised = "submit_bracket"
    /\ Len(job.top_stocks) = 2
    /\ job.submit_bracket_calls = 2
    /\ memo_file = job.top_stocks
    /\ Len(orders) = 1
    /\ orders[1].symbol = job.top_stocks[1]
    /\ bracket.raised = "ValueError"
    /\ bracket.message = "Quantity must be positive"
    /\ bracket.call.symbol = job.top_stocks[2]
    /\ ~job.slack_called
    /\ slack_posts = << >>

====
